---- MODULE Spec2Model ----
(***************************************************************************)
(* Weather-briefing tools of WxBriefWebapp: the Flask handler get_weather  *)
(* (app.py), the desktop handler WxBrief.fetchAllInfo (V4.py) and the      *)
(* airport-code conversions they share.                                    *)
(*                                                                         *)
(* A Python string is a sequence of one-character strings, so that upper,  *)
(* strip, startswith, slicing and f-string concatenation are computed as   *)
(* the code computes them.                                                 *)
(***************************************************************************)
EXTENDS Naturals, Sequences, FiniteSets, TLC

VARIABLES
    \* --- the airport-code conversions applied to one input string ---
    nCode,      \* the input string
    nStage,     \* how many of the conversions below have been applied
    nICAO,      \* app.py format_airport_code(nCode)
    nICAOgui,   \* V4.py fetchWeather.format_airport_code(nCode)
    nIATAin,    \* app.py convert_to_iata(nCode)
    nFaa,       \* V4.py fetchAirportStatus faa_code for nCode
    nIATA,      \* app.py convert_to_iata(nICAO)
    nBack,      \* app.py format_airport_code(nIATA)
    \* --- app.py: one POST /get_weather ---
    wPc,        \* where get_weather stands: the request it issues next
    wBody,      \* the posted body
    wDep,       \* departure, arrival, alternate as parsed (lines 406-408)
    wArr,
    wAlt,
    wIds,       \* fetch_weather: airport_codes
    wIdx,       \* index of the running loop (METAR fallback, codes_to_try)
    wGot,       \* fetch_weather: results of the METAR fallback, per line
                \* its code and whether the answer held the error words
    wRole,      \* airport of the running DATIS / status retrieval: 1, 2, 3
    wWeather,   \* colorized_weather
    wDatis,     \* values fetch_datis returned so far
    wStatus,    \* values fetch_airport_status returned so far
    wReq,       \* the HTTP request issued last
    wTried,     \* fetch_weather: how its primary and alternative requests ended
    wResp,      \* the response of get_weather
    \* --- V4.py: one click on "Get Weather Briefing" ---
    gPc,        \* where fetchAllInfo stands
    gDep,       \* departureInput, arrivalInput, alternateInput texts
    gArr,
    gAlt,
    gRole,      \* airport of the running DATIS / status retrieval: 1, 2, 3
    gWxOutcome, \* how the weather request of this click ended
    gWeatherOut,\* weatherOutput
    gDatis,     \* values fetchDatis returned so far
    gStatus,    \* values fetchAirportStatus returned so far
    gDatisOut,  \* datisOutput
    gStatusOut, \* statusOutput
    gReq,       \* the HTTP request issued last
    gRet,       \* how the retrieval called last ended
    gCache,     \* the ttl_cache of each of the three retrievals
    gNow,       \* the clock the caches read (ticks)
    gDelays,    \* how long a request of this session may take (ticks)
    gRun,       \* how many times fetchAllInfo has been started
    gWeatherRun,\* the run of fetchAllInfo that wrote weatherOutput last
    \* --- V4.py: the auto-refresh controls ---
    tPc,        \* whether the window is up: "idle", or "aborted"
    tChecked,   \* autoRefreshButton.isChecked()
    tLabel,     \* autoRefreshButton.text()
    tActive,    \* timer.isActive()
    tInterval,  \* timer.interval(), milliseconds
    tText,      \* refreshIntervalInput.text()
    tClicks,    \* how many times autoRefreshButton has been clicked
    \* --- the flight-category classifier applied to one weather text ---
    cData,      \* the text, as data.split('\n') gives it
    cStage,     \* how many of the colorizers below have been applied
    cGui,       \* V4.py colorizeWeather(data), before the '<br>'.join
    cWx,        \* wx_api.py colorize_weather(data), before the join
    cWeb,       \* app.py colorize_weather(data), before the join
    \* --- wx_api.py: calls of one ttl_cache-decorated retrieval ---
    xFn,        \* the retrieval that is exercised
    xNow,       \* the clock its cache reads (ticks)
    xDelays,    \* how long a request of this run may take (ticks)
    xCache,     \* its cache
    xStored,    \* the last store of each of the caller's codes
    xCall       \* the call made last

normVars == <<nCode, nStage, nICAO, nICAOgui, nIATAin, nFaa, nIATA, nBack>>

webVars ==
    <<wPc, wBody, wDep, wArr, wAlt, wIds, wIdx, wGot, wRole,
      wWeather, wDatis, wStatus, wReq, wTried, wResp>>

tglVars == <<tPc, tChecked, tLabel, tActive, tInterval, tText, tClicks>>

guiVars ==
    <<gPc, gDep, gArr, gAlt, gRole, gWxOutcome, gWeatherOut, gDatis, gStatus,
      gDatisOut, gStatusOut, gReq, gRet, gCache, gNow, gDelays, gRun,
      gWeatherRun>>

clsVars == <<cData, cStage, cGui, cWx, cWeb>>

wxVars == <<xFn, xNow, xDelays, xCache, xStored, xCall>>


-----------------------------------------------------------------------------
(* Python str primitives *)

\* Python's None; an f-string renders it as the text None
None == <<"None">>

\* a result not computed yet
Unset == <<"unset">>

LowerToUpper ==
    [a |-> "A", b |-> "B", c |-> "C", d |-> "D", e |-> "E", f |-> "F",
     g |-> "G", h |-> "H", i |-> "I", j |-> "J", k |-> "K", l |-> "L",
     m |-> "M", n |-> "N", o |-> "O", p |-> "P", q |-> "Q", r |-> "R",
     s |-> "S", t |-> "T", u |-> "U", v |-> "V", w |-> "W", x |-> "X",
     y |-> "Y", z |-> "Z"]

UpperLetters == {LowerToUpper[l] : l \in DOMAIN LowerToUpper}

\* a character no string of this module can hold (those above U+00FF) is
\* written by its code point: "U+0131" is the dotless i

\* the characters beyond a-z that str.upper() changes, in code point order
LowerBeyondAscii ==
    <<"µ", "ß", "à", "á", "â", "ã", "ä", "å", "æ", "ç", "è", "é", "ê", "ë",
      "ì", "í", "î", "ï", "ð", "ñ", "ò", "ó", "ô", "õ", "ö", "ø", "ù", "ú",
      "û", "ü", "ý", "þ", "ÿ", "U+0101", "U+0103", "U+0105", "U+0107",
      "U+0109", "U+010B", "U+010D", "U+010F", "U+0111", "U+0113", "U+0115",
      "U+0117", "U+0119", "U+011B", "U+011D", "U+011F", "U+0121", "U+0123",
      "U+0125", "U+0127", "U+0129", "U+012B", "U+012D", "U+012F", "U+0131",
      "U+0133", "U+0135", "U+0137", "U+013A", "U+013C", "U+013E", "U+0140",
      "U+0142", "U+0144", "U+0146", "U+0148", "U+0149", "U+014B", "U+014D",
      "U+014F", "U+0151", "U+0153", "U+0155", "U+0157", "U+0159", "U+015B",
      "U+015D", "U+015F", "U+0161", "U+0163", "U+0165", "U+0167", "U+0169",
      "U+016B", "U+016D", "U+016F", "U+0171", "U+0173", "U+0175", "U+0177",
      "U+017A", "U+017C", "U+017E", "U+017F", "U+0180", "U+0183", "U+0185",
      "U+0188", "U+018C", "U+0192", "U+0195", "U+0199", "U+019A", "U+019E",
      "U+01A1", "U+01A3", "U+01A5", "U+01A8", "U+01AD", "U+01B0", "U+01B4",
      "U+01B6", "U+01B9", "U+01BD", "U+01BF", "U+01C5", "U+01C6", "U+01C8",
      "U+01C9", "U+01CB", "U+01CC", "U+01CE", "U+01D0", "U+01D2", "U+01D4",
      "U+01D6", "U+01D8", "U+01DA", "U+01DC", "U+01DD", "U+01DF", "U+01E1",
      "U+01E3", "U+01E5", "U+01E7", "U+01E9", "U+01EB", "U+01ED", "U+01EF",
      "U+01F0", "U+01F2", "U+01F3", "U+01F5", "U+01F9", "U+01FB", "U+01FD",
      "U+01FF", "U+0201", "U+0203", "U+0205", "U+0207", "U+0209", "U+020B",
      "U+020D", "U+020F", "U+0211", "U+0213", "U+0215", "U+0217", "U+0219",
      "U+021B", "U+021D", "U+021F", "U+0223", "U+0225", "U+0227", "U+0229",
      "U+022B", "U+022D", "U+022F", "U+0231", "U+0233", "U+023C", "U+023F",
      "U+0240", "U+0242", "U+0247", "U+0249", "U+024B", "U+024D", "U+024F",
      "U+0250", "U+0251", "U+0252", "U+0253", "U+0254", "U+0256", "U+0257",
      "U+0259", "U+025B", "U+025C", "U+0260", "U+0261", "U+0263", "U+0265",
      "U+0266", "U+0268", "U+0269", "U+026A", "U+026B", "U+026C", "U+026F",
      "U+0271", "U+0272", "U+0275", "U+027D", "U+0280", "U+0282", "U+0283",
      "U+0287", "U+0288", "U+0289", "U+028A", "U+028B", "U+028C", "U+0292",
      "U+029D", "U+029E", "U+0345", "U+0371", "U+0373", "U+0377", "U+037B",
      "U+037C", "U+037D", "U+0390", "U+03AC", "U+03AD", "U+03AE", "U+03AF",
      "U+03B0", "U+03B1", "U+03B2", "U+03B3", "U+03B4", "U+03B5", "U+03B6",
      "U+03B7", "U+03B8", "U+03B9", "U+03BA", "U+03BB", "U+03BC", "U+03BD",
      "U+03BE", "U+03BF", "U+03C0", "U+03C1", "U+03C2", "U+03C3", "U+03C4",
      "U+03C5", "U+03C6", "U+03C7", "U+03C8", "U+03C9", "U+03CA", "U+03CB",
      "U+03CC", "U+03CD", "U+03CE", "U+03D0", "U+03D1", "U+03D5", "U+03D6",
      "U+03D7", "U+03D9", "U+03DB", "U+03DD", "U+03DF", "U+03E1", "U+03E3",
      "U+03E5", "U+03E7", "U+03E9", "U+03EB", "U+03ED", "U+03EF", "U+03F0",
      "U+03F1", "U+03F2", "U+03F3", "U+03F5", "U+03F8", "U+03FB", "U+0430",
      "U+0431", "U+0432", "U+0433", "U+0434", "U+0435", "U+0436", "U+0437",
      "U+0438", "U+0439", "U+043A", "U+043B", "U+043C", "U+043D", "U+043E",
      "U+043F", "U+0440", "U+0441", "U+0442", "U+0443", "U+0444", "U+0445",
      "U+0446", "U+0447", "U+0448", "U+0449", "U+044A", "U+044B", "U+044C",
      "U+044D", "U+044E", "U+044F", "U+0450", "U+0451", "U+0452", "U+0453",
      "U+0454", "U+0455", "U+0456", "U+0457", "U+0458", "U+0459", "U+045A",
      "U+045B", "U+045C", "U+045D", "U+045E", "U+045F", "U+0461", "U+0463",
      "U+0465", "U+0467", "U+0469", "U+046B", "U+046D", "U+046F", "U+0471",
      "U+0473", "U+0475", "U+0477", "U+0479", "U+047B", "U+047D", "U+047F",
      "U+0481", "U+048B", "U+048D", "U+048F", "U+0491", "U+0493", "U+0495",
      "U+0497", "U+0499", "U+049B", "U+049D", "U+049F", "U+04A1", "U+04A3",
      "U+04A5", "U+04A7", "U+04A9", "U+04AB", "U+04AD", "U+04AF", "U+04B1",
      "U+04B3", "U+04B5", "U+04B7", "U+04B9", "U+04BB", "U+04BD", "U+04BF",
      "U+04C2", "U+04C4", "U+04C6", "U+04C8", "U+04CA", "U+04CC", "U+04CE",
      "U+04CF", "U+04D1", "U+04D3", "U+04D5", "U+04D7", "U+04D9", "U+04DB",
      "U+04DD", "U+04DF", "U+04E1", "U+04E3", "U+04E5", "U+04E7", "U+04E9",
      "U+04EB", "U+04ED", "U+04EF", "U+04F1", "U+04F3", "U+04F5", "U+04F7",
      "U+04F9", "U+04FB", "U+04FD", "U+04FF", "U+0501", "U+0503", "U+0505",
      "U+0507", "U+0509", "U+050B", "U+050D", "U+050F", "U+0511", "U+0513",
      "U+0515", "U+0517", "U+0519", "U+051B", "U+051D", "U+051F", "U+0521",
      "U+0523", "U+0525", "U+0527", "U+0529", "U+052B", "U+052D", "U+052F",
      "U+0561", "U+0562", "U+0563", "U+0564", "U+0565", "U+0566", "U+0567",
      "U+0568", "U+0569", "U+056A", "U+056B", "U+056C", "U+056D", "U+056E",
      "U+056F", "U+0570", "U+0571", "U+0572", "U+0573", "U+0574", "U+0575",
      "U+0576", "U+0577", "U+0578", "U+0579", "U+057A", "U+057B", "U+057C",
      "U+057D", "U+057E", "U+057F", "U+0580", "U+0581", "U+0582", "U+0583",
      "U+0584", "U+0585", "U+0586", "U+0587", "U+10D0", "U+10D1", "U+10D2",
      "U+10D3", "U+10D4", "U+10D5", "U+10D6", "U+10D7", "U+10D8", "U+10D9",
      "U+10DA", "U+10DB", "U+10DC", "U+10DD", "U+10DE", "U+10DF", "U+10E0",
      "U+10E1", "U+10E2", "U+10E3", "U+10E4", "U+10E5", "U+10E6", "U+10E7",
      "U+10E8", "U+10E9", "U+10EA", "U+10EB", "U+10EC", "U+10ED", "U+10EE",
      "U+10EF", "U+10F0", "U+10F1", "U+10F2", "U+10F3", "U+10F4", "U+10F5",
      "U+10F6", "U+10F7", "U+10F8", "U+10F9", "U+10FA", "U+10FD", "U+10FE",
      "U+10FF", "U+13F8", "U+13F9", "U+13FA", "U+13FB", "U+13FC", "U+13FD",
      "U+1C80", "U+1C81", "U+1C82", "U+1C83", "U+1C84", "U+1C85", "U+1C86",
      "U+1C87", "U+1C88", "U+1D79", "U+1D7D", "U+1D8E", "U+1E01", "U+1E03",
      "U+1E05", "U+1E07", "U+1E09", "U+1E0B", "U+1E0D", "U+1E0F", "U+1E11",
      "U+1E13", "U+1E15", "U+1E17", "U+1E19", "U+1E1B", "U+1E1D", "U+1E1F",
      "U+1E21", "U+1E23", "U+1E25", "U+1E27", "U+1E29", "U+1E2B", "U+1E2D",
      "U+1E2F", "U+1E31", "U+1E33", "U+1E35", "U+1E37", "U+1E39", "U+1E3B",
      "U+1E3D", "U+1E3F", "U+1E41", "U+1E43", "U+1E45", "U+1E47", "U+1E49",
      "U+1E4B", "U+1E4D", "U+1E4F", "U+1E51", "U+1E53", "U+1E55", "U+1E57",
      "U+1E59", "U+1E5B", "U+1E5D", "U+1E5F", "U+1E61", "U+1E63", "U+1E65",
      "U+1E67", "U+1E69", "U+1E6B", "U+1E6D", "U+1E6F", "U+1E71", "U+1E73",
      "U+1E75", "U+1E77", "U+1E79", "U+1E7B", "U+1E7D", "U+1E7F", "U+1E81",
      "U+1E83", "U+1E85", "U+1E87", "U+1E89", "U+1E8B", "U+1E8D", "U+1E8F",
      "U+1E91", "U+1E93", "U+1E95", "U+1E96", "U+1E97", "U+1E98", "U+1E99",
      "U+1E9A", "U+1E9B", "U+1EA1", "U+1EA3", "U+1EA5", "U+1EA7", "U+1EA9",
      "U+1EAB", "U+1EAD", "U+1EAF", "U+1EB1", "U+1EB3", "U+1EB5", "U+1EB7",
      "U+1EB9", "U+1EBB", "U+1EBD", "U+1EBF", "U+1EC1", "U+1EC3", "U+1EC5",
      "U+1EC7", "U+1EC9", "U+1ECB", "U+1ECD", "U+1ECF", "U+1ED1", "U+1ED3",
      "U+1ED5", "U+1ED7", "U+1ED9", "U+1EDB", "U+1EDD", "U+1EDF", "U+1EE1",
      "U+1EE3", "U+1EE5", "U+1EE7", "U+1EE9", "U+1EEB", "U+1EED", "U+1EEF",
      "U+1EF1", "U+1EF3", "U+1EF5", "U+1EF7", "U+1EF9", "U+1EFB", "U+1EFD",
      "U+1EFF", "U+1F00", "U+1F01", "U+1F02", "U+1F03", "U+1F04", "U+1F05",
      "U+1F06", "U+1F07", "U+1F10", "U+1F11", "U+1F12", "U+1F13", "U+1F14",
      "U+1F15", "U+1F20", "U+1F21", "U+1F22", "U+1F23", "U+1F24", "U+1F25",
      "U+1F26", "U+1F27", "U+1F30", "U+1F31", "U+1F32", "U+1F33", "U+1F34",
      "U+1F35", "U+1F36", "U+1F37", "U+1F40", "U+1F41", "U+1F42", "U+1F43",
      "U+1F44", "U+1F45", "U+1F50", "U+1F51", "U+1F52", "U+1F53", "U+1F54",
      "U+1F55", "U+1F56", "U+1F57", "U+1F60", "U+1F61", "U+1F62", "U+1F63",
      "U+1F64", "U+1F65", "U+1F66", "U+1F67", "U+1F70", "U+1F71", "U+1F72",
      "U+1F73", "U+1F74", "U+1F75", "U+1F76", "U+1F77", "U+1F78", "U+1F79",
      "U+1F7A", "U+1F7B", "U+1F7C", "U+1F7D", "U+1F80", "U+1F81", "U+1F82",
      "U+1F83", "U+1F84", "U+1F85", "U+1F86", "U+1F87", "U+1F88", "U+1F89",
      "U+1F8A", "U+1F8B", "U+1F8C", "U+1F8D", "U+1F8E", "U+1F8F", "U+1F90",
      "U+1F91", "U+1F92", "U+1F93", "U+1F94", "U+1F95", "U+1F96", "U+1F97",
      "U+1F98", "U+1F99", "U+1F9A", "U+1F9B", "U+1F9C", "U+1F9D", "U+1F9E",
      "U+1F9F", "U+1FA0", "U+1FA1", "U+1FA2", "U+1FA3", "U+1FA4", "U+1FA5",
      "U+1FA6", "U+1FA7", "U+1FA8", "U+1FA9", "U+1FAA", "U+1FAB", "U+1FAC",
      "U+1FAD", "U+1FAE", "U+1FAF", "U+1FB0", "U+1FB1", "U+1FB2", "U+1FB3",
      "U+1FB4", "U+1FB6", "U+1FB7", "U+1FBC", "U+1FBE", "U+1FC2", "U+1FC3",
      "U+1FC4", "U+1FC6", "U+1FC7", "U+1FCC", "U+1FD0", "U+1FD1", "U+1FD2",
      "U+1FD3", "U+1FD6", "U+1FD7", "U+1FE0", "U+1FE1", "U+1FE2", "U+1FE3",
      "U+1FE4", "U+1FE5", "U+1FE6", "U+1FE7", "U+1FF2", "U+1FF3", "U+1FF4",
      "U+1FF6", "U+1FF7", "U+1FFC", "U+214E", "U+2170", "U+2171", "U+2172",
      "U+2173", "U+2174", "U+2175", "U+2176", "U+2177", "U+2178", "U+2179",
      "U+217A", "U+217B", "U+217C", "U+217D", "U+217E", "U+217F", "U+2184",
      "U+24D0", "U+24D1", "U+24D2", "U+24D3", "U+24D4", "U+24D5", "U+24D6",
      "U+24D7", "U+24D8", "U+24D9", "U+24DA", "U+24DB", "U+24DC", "U+24DD",
      "U+24DE", "U+24DF", "U+24E0", "U+24E1", "U+24E2", "U+24E3", "U+24E4",
      "U+24E5", "U+24E6", "U+24E7", "U+24E8", "U+24E9", "U+2C30", "U+2C31",
      "U+2C32", "U+2C33", "U+2C34", "U+2C35", "U+2C36", "U+2C37", "U+2C38",
      "U+2C39", "U+2C3A", "U+2C3B", "U+2C3C", "U+2C3D", "U+2C3E", "U+2C3F",
      "U+2C40", "U+2C41", "U+2C42", "U+2C43", "U+2C44", "U+2C45", "U+2C46",
      "U+2C47", "U+2C48", "U+2C49", "U+2C4A", "U+2C4B", "U+2C4C", "U+2C4D",
      "U+2C4E", "U+2C4F", "U+2C50", "U+2C51", "U+2C52", "U+2C53", "U+2C54",
      "U+2C55", "U+2C56", "U+2C57", "U+2C58", "U+2C59", "U+2C5A", "U+2C5B",
      "U+2C5C", "U+2C5D", "U+2C5E", "U+2C5F", "U+2C61", "U+2C65", "U+2C66",
      "U+2C68", "U+2C6A", "U+2C6C", "U+2C73", "U+2C76", "U+2C81", "U+2C83",
      "U+2C85", "U+2C87", "U+2C89", "U+2C8B", "U+2C8D", "U+2C8F", "U+2C91",
      "U+2C93", "U+2C95", "U+2C97", "U+2C99", "U+2C9B", "U+2C9D", "U+2C9F",
      "U+2CA1", "U+2CA3", "U+2CA5", "U+2CA7", "U+2CA9", "U+2CAB", "U+2CAD",
      "U+2CAF", "U+2CB1", "U+2CB3", "U+2CB5", "U+2CB7", "U+2CB9", "U+2CBB",
      "U+2CBD", "U+2CBF", "U+2CC1", "U+2CC3", "U+2CC5", "U+2CC7", "U+2CC9",
      "U+2CCB", "U+2CCD", "U+2CCF", "U+2CD1", "U+2CD3", "U+2CD5", "U+2CD7",
      "U+2CD9", "U+2CDB", "U+2CDD", "U+2CDF", "U+2CE1", "U+2CE3", "U+2CEC",
      "U+2CEE", "U+2CF3", "U+2D00", "U+2D01", "U+2D02", "U+2D03", "U+2D04",
      "U+2D05", "U+2D06", "U+2D07", "U+2D08", "U+2D09", "U+2D0A", "U+2D0B",
      "U+2D0C", "U+2D0D", "U+2D0E", "U+2D0F", "U+2D10", "U+2D11", "U+2D12",
      "U+2D13", "U+2D14", "U+2D15", "U+2D16", "U+2D17", "U+2D18", "U+2D19",
      "U+2D1A", "U+2D1B", "U+2D1C", "U+2D1D", "U+2D1E", "U+2D1F", "U+2D20",
      "U+2D21", "U+2D22", "U+2D23", "U+2D24", "U+2D25", "U+2D27", "U+2D2D",
      "U+A641", "U+A643", "U+A645", "U+A647", "U+A649", "U+A64B", "U+A64D",
      "U+A64F", "U+A651", "U+A653", "U+A655", "U+A657", "U+A659", "U+A65B",
      "U+A65D", "U+A65F", "U+A661", "U+A663", "U+A665", "U+A667", "U+A669",
      "U+A66B", "U+A66D", "U+A681", "U+A683", "U+A685", "U+A687", "U+A689",
      "U+A68B", "U+A68D", "U+A68F", "U+A691", "U+A693", "U+A695", "U+A697",
      "U+A699", "U+A69B", "U+A723", "U+A725", "U+A727", "U+A729", "U+A72B",
      "U+A72D", "U+A72F", "U+A733", "U+A735", "U+A737", "U+A739", "U+A73B",
      "U+A73D", "U+A73F", "U+A741", "U+A743", "U+A745", "U+A747", "U+A749",
      "U+A74B", "U+A74D", "U+A74F", "U+A751", "U+A753", "U+A755", "U+A757",
      "U+A759", "U+A75B", "U+A75D", "U+A75F", "U+A761", "U+A763", "U+A765",
      "U+A767", "U+A769", "U+A76B", "U+A76D", "U+A76F", "U+A77A", "U+A77C",
      "U+A77F", "U+A781", "U+A783", "U+A785", "U+A787", "U+A78C", "U+A791",
      "U+A793", "U+A794", "U+A797", "U+A799", "U+A79B", "U+A79D", "U+A79F",
      "U+A7A1", "U+A7A3", "U+A7A5", "U+A7A7", "U+A7A9", "U+A7B5", "U+A7B7",
      "U+A7B9", "U+A7BB", "U+A7BD", "U+A7BF", "U+A7C1", "U+A7C3", "U+A7C8",
      "U+A7CA", "U+A7D1", "U+A7D7", "U+A7D9", "U+A7F6", "U+AB53", "U+AB70",
      "U+AB71", "U+AB72", "U+AB73", "U+AB74", "U+AB75", "U+AB76", "U+AB77",
      "U+AB78", "U+AB79", "U+AB7A", "U+AB7B", "U+AB7C", "U+AB7D", "U+AB7E",
      "U+AB7F", "U+AB80", "U+AB81", "U+AB82", "U+AB83", "U+AB84", "U+AB85",
      "U+AB86", "U+AB87", "U+AB88", "U+AB89", "U+AB8A", "U+AB8B", "U+AB8C",
      "U+AB8D", "U+AB8E", "U+AB8F", "U+AB90", "U+AB91", "U+AB92", "U+AB93",
      "U+AB94", "U+AB95", "U+AB96", "U+AB97", "U+AB98", "U+AB99", "U+AB9A",
      "U+AB9B", "U+AB9C", "U+AB9D", "U+AB9E", "U+AB9F", "U+ABA0", "U+ABA1",
      "U+ABA2", "U+ABA3", "U+ABA4", "U+ABA5", "U+ABA6", "U+ABA7", "U+ABA8",
      "U+ABA9", "U+ABAA", "U+ABAB", "U+ABAC", "U+ABAD", "U+ABAE", "U+ABAF",
      "U+ABB0", "U+ABB1", "U+ABB2", "U+ABB3", "U+ABB4", "U+ABB5", "U+ABB6",
      "U+ABB7", "U+ABB8", "U+ABB9", "U+ABBA", "U+ABBB", "U+ABBC", "U+ABBD",
      "U+ABBE", "U+ABBF", "U+FB00", "U+FB01", "U+FB02", "U+FB03", "U+FB04",
      "U+FB05", "U+FB06", "U+FB13", "U+FB14", "U+FB15", "U+FB16", "U+FB17",
      "U+FF41", "U+FF42", "U+FF43", "U+FF44", "U+FF45", "U+FF46", "U+FF47",
      "U+FF48", "U+FF49", "U+FF4A", "U+FF4B", "U+FF4C", "U+FF4D", "U+FF4E",
      "U+FF4F", "U+FF50", "U+FF51", "U+FF52", "U+FF53", "U+FF54", "U+FF55",
      "U+FF56", "U+FF57", "U+FF58", "U+FF59", "U+FF5A", "U+10428", "U+10429",
      "U+1042A", "U+1042B", "U+1042C", "U+1042D", "U+1042E", "U+1042F",
      "U+10430", "U+10431", "U+10432", "U+10433", "U+10434", "U+10435",
      "U+10436", "U+10437", "U+10438", "U+10439", "U+1043A", "U+1043B",
      "U+1043C", "U+1043D", "U+1043E", "U+1043F", "U+10440", "U+10441",
      "U+10442", "U+10443", "U+10444", "U+10445", "U+10446", "U+10447",
      "U+10448", "U+10449", "U+1044A", "U+1044B", "U+1044C", "U+1044D",
      "U+1044E", "U+1044F", "U+104D8", "U+104D9", "U+104DA", "U+104DB",
      "U+104DC", "U+104DD", "U+104DE", "U+104DF", "U+104E0", "U+104E1",
      "U+104E2", "U+104E3", "U+104E4", "U+104E5", "U+104E6", "U+104E7",
      "U+104E8", "U+104E9", "U+104EA", "U+104EB", "U+104EC", "U+104ED",
      "U+104EE", "U+104EF", "U+104F0", "U+104F1", "U+104F2", "U+104F3",
      "U+104F4", "U+104F5", "U+104F6", "U+104F7", "U+104F8", "U+104F9",
      "U+104FA", "U+104FB", "U+10597", "U+10598", "U+10599", "U+1059A",
      "U+1059B", "U+1059C", "U+1059D", "U+1059E", "U+1059F", "U+105A0",
      "U+105A1", "U+105A3", "U+105A4", "U+105A5", "U+105A6", "U+105A7",
      "U+105A8", "U+105A9", "U+105AA", "U+105AB", "U+105AC", "U+105AD",
      "U+105AE", "U+105AF", "U+105B0", "U+105B1", "U+105B3", "U+105B4",
      "U+105B5", "U+105B6", "U+105B7", "U+105B8", "U+105B9", "U+105BB",
      "U+105BC", "U+10CC0", "U+10CC1", "U+10CC2", "U+10CC3", "U+10CC4",
      "U+10CC5", "U+10CC6", "U+10CC7", "U+10CC8", "U+10CC9", "U+10CCA",
      "U+10CCB", "U+10CCC", "U+10CCD", "U+10CCE", "U+10CCF", "U+10CD0",
      "U+10CD1", "U+10CD2", "U+10CD3", "U+10CD4", "U+10CD5", "U+10CD6",
      "U+10CD7", "U+10CD8", "U+10CD9", "U+10CDA", "U+10CDB", "U+10CDC",
      "U+10CDD", "U+10CDE", "U+10CDF", "U+10CE0", "U+10CE1", "U+10CE2",
      "U+10CE3", "U+10CE4", "U+10CE5", "U+10CE6", "U+10CE7", "U+10CE8",
      "U+10CE9", "U+10CEA", "U+10CEB", "U+10CEC", "U+10CED", "U+10CEE",
      "U+10CEF", "U+10CF0", "U+10CF1", "U+10CF2", "U+118C0", "U+118C1",
      "U+118C2", "U+118C3", "U+118C4", "U+118C5", "U+118C6", "U+118C7",
      "U+118C8", "U+118C9", "U+118CA", "U+118CB", "U+118CC", "U+118CD",
      "U+118CE", "U+118CF", "U+118D0", "U+118D1", "U+118D2", "U+118D3",
      "U+118D4", "U+118D5", "U+118D6", "U+118D7", "U+118D8", "U+118D9",
      "U+118DA", "U+118DB", "U+118DC", "U+118DD", "U+118DE", "U+118DF",
      "U+16E60", "U+16E61", "U+16E62", "U+16E63", "U+16E64", "U+16E65",
      "U+16E66", "U+16E67", "U+16E68", "U+16E69", "U+16E6A", "U+16E6B",
      "U+16E6C", "U+16E6D", "U+16E6E", "U+16E6F", "U+16E70", "U+16E71",
      "U+16E72", "U+16E73", "U+16E74", "U+16E75", "U+16E76", "U+16E77",
      "U+16E78", "U+16E79", "U+16E7A", "U+16E7B", "U+16E7C", "U+16E7D",
      "U+16E7E", "U+16E7F", "U+1E922", "U+1E923", "U+1E924", "U+1E925",
      "U+1E926", "U+1E927", "U+1E928", "U+1E929", "U+1E92A", "U+1E92B",
      "U+1E92C", "U+1E92D", "U+1E92E", "U+1E92F", "U+1E930", "U+1E931",
      "U+1E932", "U+1E933", "U+1E934", "U+1E935", "U+1E936", "U+1E937",
      "U+1E938", "U+1E939", "U+1E93A", "U+1E93B", "U+1E93C", "U+1E93D",
      "U+1E93E", "U+1E93F", "U+1E940", "U+1E941", "U+1E942", "U+1E943">>

\* and what it makes of each: one character or, as for the sharp s, more
UpperBeyondAscii ==
    <<<<"U+039C">>, <<"S", "S">>, <<"À">>, <<"Á">>, <<"Â">>, <<"Ã">>, <<"Ä">>,
      <<"Å">>, <<"Æ">>, <<"Ç">>, <<"È">>, <<"É">>, <<"Ê">>, <<"Ë">>, <<"Ì">>,
      <<"Í">>, <<"Î">>, <<"Ï">>, <<"Ð">>, <<"Ñ">>, <<"Ò">>, <<"Ó">>, <<"Ô">>,
      <<"Õ">>, <<"Ö">>, <<"Ø">>, <<"Ù">>, <<"Ú">>, <<"Û">>, <<"Ü">>, <<"Ý">>,
      <<"Þ">>, <<"U+0178">>, <<"U+0100">>, <<"U+0102">>, <<"U+0104">>,
      <<"U+0106">>, <<"U+0108">>, <<"U+010A">>, <<"U+010C">>, <<"U+010E">>,
      <<"U+0110">>, <<"U+0112">>, <<"U+0114">>, <<"U+0116">>, <<"U+0118">>,
      <<"U+011A">>, <<"U+011C">>, <<"U+011E">>, <<"U+0120">>, <<"U+0122">>,
      <<"U+0124">>, <<"U+0126">>, <<"U+0128">>, <<"U+012A">>, <<"U+012C">>,
      <<"U+012E">>, <<"I">>, <<"U+0132">>, <<"U+0134">>, <<"U+0136">>,
      <<"U+0139">>, <<"U+013B">>, <<"U+013D">>, <<"U+013F">>, <<"U+0141">>,
      <<"U+0143">>, <<"U+0145">>, <<"U+0147">>, <<"U+02BC", "N">>,
      <<"U+014A">>, <<"U+014C">>, <<"U+014E">>, <<"U+0150">>, <<"U+0152">>,
      <<"U+0154">>, <<"U+0156">>, <<"U+0158">>, <<"U+015A">>, <<"U+015C">>,
      <<"U+015E">>, <<"U+0160">>, <<"U+0162">>, <<"U+0164">>, <<"U+0166">>,
      <<"U+0168">>, <<"U+016A">>, <<"U+016C">>, <<"U+016E">>, <<"U+0170">>,
      <<"U+0172">>, <<"U+0174">>, <<"U+0176">>, <<"U+0179">>, <<"U+017B">>,
      <<"U+017D">>, <<"S">>, <<"U+0243">>, <<"U+0182">>, <<"U+0184">>,
      <<"U+0187">>, <<"U+018B">>, <<"U+0191">>, <<"U+01F6">>, <<"U+0198">>,
      <<"U+023D">>, <<"U+0220">>, <<"U+01A0">>, <<"U+01A2">>, <<"U+01A4">>,
      <<"U+01A7">>, <<"U+01AC">>, <<"U+01AF">>, <<"U+01B3">>, <<"U+01B5">>,
      <<"U+01B8">>, <<"U+01BC">>, <<"U+01F7">>, <<"U+01C4">>, <<"U+01C4">>,
      <<"U+01C7">>, <<"U+01C7">>, <<"U+01CA">>, <<"U+01CA">>, <<"U+01CD">>,
      <<"U+01CF">>, <<"U+01D1">>, <<"U+01D3">>, <<"U+01D5">>, <<"U+01D7">>,
      <<"U+01D9">>, <<"U+01DB">>, <<"U+018E">>, <<"U+01DE">>, <<"U+01E0">>,
      <<"U+01E2">>, <<"U+01E4">>, <<"U+01E6">>, <<"U+01E8">>, <<"U+01EA">>,
      <<"U+01EC">>, <<"U+01EE">>, <<"J", "U+030C">>, <<"U+01F1">>,
      <<"U+01F1">>, <<"U+01F4">>, <<"U+01F8">>, <<"U+01FA">>, <<"U+01FC">>,
      <<"U+01FE">>, <<"U+0200">>, <<"U+0202">>, <<"U+0204">>, <<"U+0206">>,
      <<"U+0208">>, <<"U+020A">>, <<"U+020C">>, <<"U+020E">>, <<"U+0210">>,
      <<"U+0212">>, <<"U+0214">>, <<"U+0216">>, <<"U+0218">>, <<"U+021A">>,
      <<"U+021C">>, <<"U+021E">>, <<"U+0222">>, <<"U+0224">>, <<"U+0226">>,
      <<"U+0228">>, <<"U+022A">>, <<"U+022C">>, <<"U+022E">>, <<"U+0230">>,
      <<"U+0232">>, <<"U+023B">>, <<"U+2C7E">>, <<"U+2C7F">>, <<"U+0241">>,
      <<"U+0246">>, <<"U+0248">>, <<"U+024A">>, <<"U+024C">>, <<"U+024E">>,
      <<"U+2C6F">>, <<"U+2C6D">>, <<"U+2C70">>, <<"U+0181">>, <<"U+0186">>,
      <<"U+0189">>, <<"U+018A">>, <<"U+018F">>, <<"U+0190">>, <<"U+A7AB">>,
      <<"U+0193">>, <<"U+A7AC">>, <<"U+0194">>, <<"U+A78D">>, <<"U+A7AA">>,
      <<"U+0197">>, <<"U+0196">>, <<"U+A7AE">>, <<"U+2C62">>, <<"U+A7AD">>,
      <<"U+019C">>, <<"U+2C6E">>, <<"U+019D">>, <<"U+019F">>, <<"U+2C64">>,
      <<"U+01A6">>, <<"U+A7C5">>, <<"U+01A9">>, <<"U+A7B1">>, <<"U+01AE">>,
      <<"U+0244">>, <<"U+01B1">>, <<"U+01B2">>, <<"U+0245">>, <<"U+01B7">>,
      <<"U+A7B2">>, <<"U+A7B0">>, <<"U+0399">>, <<"U+0370">>, <<"U+0372">>,
      <<"U+0376">>, <<"U+03FD">>, <<"U+03FE">>, <<"U+03FF">>,
      <<"U+0399", "U+0308", "U+0301">>, <<"U+0386">>, <<"U+0388">>,
      <<"U+0389">>, <<"U+038A">>, <<"U+03A5", "U+0308", "U+0301">>,
      <<"U+0391">>, <<"U+0392">>, <<"U+0393">>, <<"U+0394">>, <<"U+0395">>,
      <<"U+0396">>, <<"U+0397">>, <<"U+0398">>, <<"U+0399">>, <<"U+039A">>,
      <<"U+039B">>, <<"U+039C">>, <<"U+039D">>, <<"U+039E">>, <<"U+039F">>,
      <<"U+03A0">>, <<"U+03A1">>, <<"U+03A3">>, <<"U+03A3">>, <<"U+03A4">>,
      <<"U+03A5">>, <<"U+03A6">>, <<"U+03A7">>, <<"U+03A8">>, <<"U+03A9">>,
      <<"U+03AA">>, <<"U+03AB">>, <<"U+038C">>, <<"U+038E">>, <<"U+038F">>,
      <<"U+0392">>, <<"U+0398">>, <<"U+03A6">>, <<"U+03A0">>, <<"U+03CF">>,
      <<"U+03D8">>, <<"U+03DA">>, <<"U+03DC">>, <<"U+03DE">>, <<"U+03E0">>,
      <<"U+03E2">>, <<"U+03E4">>, <<"U+03E6">>, <<"U+03E8">>, <<"U+03EA">>,
      <<"U+03EC">>, <<"U+03EE">>, <<"U+039A">>, <<"U+03A1">>, <<"U+03F9">>,
      <<"U+037F">>, <<"U+0395">>, <<"U+03F7">>, <<"U+03FA">>, <<"U+0410">>,
      <<"U+0411">>, <<"U+0412">>, <<"U+0413">>, <<"U+0414">>, <<"U+0415">>,
      <<"U+0416">>, <<"U+0417">>, <<"U+0418">>, <<"U+0419">>, <<"U+041A">>,
      <<"U+041B">>, <<"U+041C">>, <<"U+041D">>, <<"U+041E">>, <<"U+041F">>,
      <<"U+0420">>, <<"U+0421">>, <<"U+0422">>, <<"U+0423">>, <<"U+0424">>,
      <<"U+0425">>, <<"U+0426">>, <<"U+0427">>, <<"U+0428">>, <<"U+0429">>,
      <<"U+042A">>, <<"U+042B">>, <<"U+042C">>, <<"U+042D">>, <<"U+042E">>,
      <<"U+042F">>, <<"U+0400">>, <<"U+0401">>, <<"U+0402">>, <<"U+0403">>,
      <<"U+0404">>, <<"U+0405">>, <<"U+0406">>, <<"U+0407">>, <<"U+0408">>,
      <<"U+0409">>, <<"U+040A">>, <<"U+040B">>, <<"U+040C">>, <<"U+040D">>,
      <<"U+040E">>, <<"U+040F">>, <<"U+0460">>, <<"U+0462">>, <<"U+0464">>,
      <<"U+0466">>, <<"U+0468">>, <<"U+046A">>, <<"U+046C">>, <<"U+046E">>,
      <<"U+0470">>, <<"U+0472">>, <<"U+0474">>, <<"U+0476">>, <<"U+0478">>,
      <<"U+047A">>, <<"U+047C">>, <<"U+047E">>, <<"U+0480">>, <<"U+048A">>,
      <<"U+048C">>, <<"U+048E">>, <<"U+0490">>, <<"U+0492">>, <<"U+0494">>,
      <<"U+0496">>, <<"U+0498">>, <<"U+049A">>, <<"U+049C">>, <<"U+049E">>,
      <<"U+04A0">>, <<"U+04A2">>, <<"U+04A4">>, <<"U+04A6">>, <<"U+04A8">>,
      <<"U+04AA">>, <<"U+04AC">>, <<"U+04AE">>, <<"U+04B0">>, <<"U+04B2">>,
      <<"U+04B4">>, <<"U+04B6">>, <<"U+04B8">>, <<"U+04BA">>, <<"U+04BC">>,
      <<"U+04BE">>, <<"U+04C1">>, <<"U+04C3">>, <<"U+04C5">>, <<"U+04C7">>,
      <<"U+04C9">>, <<"U+04CB">>, <<"U+04CD">>, <<"U+04C0">>, <<"U+04D0">>,
      <<"U+04D2">>, <<"U+04D4">>, <<"U+04D6">>, <<"U+04D8">>, <<"U+04DA">>,
      <<"U+04DC">>, <<"U+04DE">>, <<"U+04E0">>, <<"U+04E2">>, <<"U+04E4">>,
      <<"U+04E6">>, <<"U+04E8">>, <<"U+04EA">>, <<"U+04EC">>, <<"U+04EE">>,
      <<"U+04F0">>, <<"U+04F2">>, <<"U+04F4">>, <<"U+04F6">>, <<"U+04F8">>,
      <<"U+04FA">>, <<"U+04FC">>, <<"U+04FE">>, <<"U+0500">>, <<"U+0502">>,
      <<"U+0504">>, <<"U+0506">>, <<"U+0508">>, <<"U+050A">>, <<"U+050C">>,
      <<"U+050E">>, <<"U+0510">>, <<"U+0512">>, <<"U+0514">>, <<"U+0516">>,
      <<"U+0518">>, <<"U+051A">>, <<"U+051C">>, <<"U+051E">>, <<"U+0520">>,
      <<"U+0522">>, <<"U+0524">>, <<"U+0526">>, <<"U+0528">>, <<"U+052A">>,
      <<"U+052C">>, <<"U+052E">>, <<"U+0531">>, <<"U+0532">>, <<"U+0533">>,
      <<"U+0534">>, <<"U+0535">>, <<"U+0536">>, <<"U+0537">>, <<"U+0538">>,
      <<"U+0539">>, <<"U+053A">>, <<"U+053B">>, <<"U+053C">>, <<"U+053D">>,
      <<"U+053E">>, <<"U+053F">>, <<"U+0540">>, <<"U+0541">>, <<"U+0542">>,
      <<"U+0543">>, <<"U+0544">>, <<"U+0545">>, <<"U+0546">>, <<"U+0547">>,
      <<"U+0548">>, <<"U+0549">>, <<"U+054A">>, <<"U+054B">>, <<"U+054C">>,
      <<"U+054D">>, <<"U+054E">>, <<"U+054F">>, <<"U+0550">>, <<"U+0551">>,
      <<"U+0552">>, <<"U+0553">>, <<"U+0554">>, <<"U+0555">>, <<"U+0556">>,
      <<"U+0535", "U+0552">>, <<"U+1C90">>, <<"U+1C91">>, <<"U+1C92">>,
      <<"U+1C93">>, <<"U+1C94">>, <<"U+1C95">>, <<"U+1C96">>, <<"U+1C97">>,
      <<"U+1C98">>, <<"U+1C99">>, <<"U+1C9A">>, <<"U+1C9B">>, <<"U+1C9C">>,
      <<"U+1C9D">>, <<"U+1C9E">>, <<"U+1C9F">>, <<"U+1CA0">>, <<"U+1CA1">>,
      <<"U+1CA2">>, <<"U+1CA3">>, <<"U+1CA4">>, <<"U+1CA5">>, <<"U+1CA6">>,
      <<"U+1CA7">>, <<"U+1CA8">>, <<"U+1CA9">>, <<"U+1CAA">>, <<"U+1CAB">>,
      <<"U+1CAC">>, <<"U+1CAD">>, <<"U+1CAE">>, <<"U+1CAF">>, <<"U+1CB0">>,
      <<"U+1CB1">>, <<"U+1CB2">>, <<"U+1CB3">>, <<"U+1CB4">>, <<"U+1CB5">>,
      <<"U+1CB6">>, <<"U+1CB7">>, <<"U+1CB8">>, <<"U+1CB9">>, <<"U+1CBA">>,
      <<"U+1CBD">>, <<"U+1CBE">>, <<"U+1CBF">>, <<"U+13F0">>, <<"U+13F1">>,
      <<"U+13F2">>, <<"U+13F3">>, <<"U+13F4">>, <<"U+13F5">>, <<"U+0412">>,
      <<"U+0414">>, <<"U+041E">>, <<"U+0421">>, <<"U+0422">>, <<"U+0422">>,
      <<"U+042A">>, <<"U+0462">>, <<"U+A64A">>, <<"U+A77D">>, <<"U+2C63">>,
      <<"U+A7C6">>, <<"U+1E00">>, <<"U+1E02">>, <<"U+1E04">>, <<"U+1E06">>,
      <<"U+1E08">>, <<"U+1E0A">>, <<"U+1E0C">>, <<"U+1E0E">>, <<"U+1E10">>,
      <<"U+1E12">>, <<"U+1E14">>, <<"U+1E16">>, <<"U+1E18">>, <<"U+1E1A">>,
      <<"U+1E1C">>, <<"U+1E1E">>, <<"U+1E20">>, <<"U+1E22">>, <<"U+1E24">>,
      <<"U+1E26">>, <<"U+1E28">>, <<"U+1E2A">>, <<"U+1E2C">>, <<"U+1E2E">>,
      <<"U+1E30">>, <<"U+1E32">>, <<"U+1E34">>, <<"U+1E36">>, <<"U+1E38">>,
      <<"U+1E3A">>, <<"U+1E3C">>, <<"U+1E3E">>, <<"U+1E40">>, <<"U+1E42">>,
      <<"U+1E44">>, <<"U+1E46">>, <<"U+1E48">>, <<"U+1E4A">>, <<"U+1E4C">>,
      <<"U+1E4E">>, <<"U+1E50">>, <<"U+1E52">>, <<"U+1E54">>, <<"U+1E56">>,
      <<"U+1E58">>, <<"U+1E5A">>, <<"U+1E5C">>, <<"U+1E5E">>, <<"U+1E60">>,
      <<"U+1E62">>, <<"U+1E64">>, <<"U+1E66">>, <<"U+1E68">>, <<"U+1E6A">>,
      <<"U+1E6C">>, <<"U+1E6E">>, <<"U+1E70">>, <<"U+1E72">>, <<"U+1E74">>,
      <<"U+1E76">>, <<"U+1E78">>, <<"U+1E7A">>, <<"U+1E7C">>, <<"U+1E7E">>,
      <<"U+1E80">>, <<"U+1E82">>, <<"U+1E84">>, <<"U+1E86">>, <<"U+1E88">>,
      <<"U+1E8A">>, <<"U+1E8C">>, <<"U+1E8E">>, <<"U+1E90">>, <<"U+1E92">>,
      <<"U+1E94">>, <<"H", "U+0331">>, <<"T", "U+0308">>, <<"W", "U+030A">>,
      <<"Y", "U+030A">>, <<"A", "U+02BE">>, <<"U+1E60">>, <<"U+1EA0">>,
      <<"U+1EA2">>, <<"U+1EA4">>, <<"U+1EA6">>, <<"U+1EA8">>, <<"U+1EAA">>,
      <<"U+1EAC">>, <<"U+1EAE">>, <<"U+1EB0">>, <<"U+1EB2">>, <<"U+1EB4">>,
      <<"U+1EB6">>, <<"U+1EB8">>, <<"U+1EBA">>, <<"U+1EBC">>, <<"U+1EBE">>,
      <<"U+1EC0">>, <<"U+1EC2">>, <<"U+1EC4">>, <<"U+1EC6">>, <<"U+1EC8">>,
      <<"U+1ECA">>, <<"U+1ECC">>, <<"U+1ECE">>, <<"U+1ED0">>, <<"U+1ED2">>,
      <<"U+1ED4">>, <<"U+1ED6">>, <<"U+1ED8">>, <<"U+1EDA">>, <<"U+1EDC">>,
      <<"U+1EDE">>, <<"U+1EE0">>, <<"U+1EE2">>, <<"U+1EE4">>, <<"U+1EE6">>,
      <<"U+1EE8">>, <<"U+1EEA">>, <<"U+1EEC">>, <<"U+1EEE">>, <<"U+1EF0">>,
      <<"U+1EF2">>, <<"U+1EF4">>, <<"U+1EF6">>, <<"U+1EF8">>, <<"U+1EFA">>,
      <<"U+1EFC">>, <<"U+1EFE">>, <<"U+1F08">>, <<"U+1F09">>, <<"U+1F0A">>,
      <<"U+1F0B">>, <<"U+1F0C">>, <<"U+1F0D">>, <<"U+1F0E">>, <<"U+1F0F">>,
      <<"U+1F18">>, <<"U+1F19">>, <<"U+1F1A">>, <<"U+1F1B">>, <<"U+1F1C">>,
      <<"U+1F1D">>, <<"U+1F28">>, <<"U+1F29">>, <<"U+1F2A">>, <<"U+1F2B">>,
      <<"U+1F2C">>, <<"U+1F2D">>, <<"U+1F2E">>, <<"U+1F2F">>, <<"U+1F38">>,
      <<"U+1F39">>, <<"U+1F3A">>, <<"U+1F3B">>, <<"U+1F3C">>, <<"U+1F3D">>,
      <<"U+1F3E">>, <<"U+1F3F">>, <<"U+1F48">>, <<"U+1F49">>, <<"U+1F4A">>,
      <<"U+1F4B">>, <<"U+1F4C">>, <<"U+1F4D">>, <<"U+03A5", "U+0313">>,
      <<"U+1F59">>, <<"U+03A5", "U+0313", "U+0300">>, <<"U+1F5B">>,
      <<"U+03A5", "U+0313", "U+0301">>, <<"U+1F5D">>,
      <<"U+03A5", "U+0313", "U+0342">>, <<"U+1F5F">>, <<"U+1F68">>,
      <<"U+1F69">>, <<"U+1F6A">>, <<"U+1F6B">>, <<"U+1F6C">>, <<"U+1F6D">>,
      <<"U+1F6E">>, <<"U+1F6F">>, <<"U+1FBA">>, <<"U+1FBB">>, <<"U+1FC8">>,
      <<"U+1FC9">>, <<"U+1FCA">>, <<"U+1FCB">>, <<"U+1FDA">>, <<"U+1FDB">>,
      <<"U+1FF8">>, <<"U+1FF9">>, <<"U+1FEA">>, <<"U+1FEB">>, <<"U+1FFA">>,
      <<"U+1FFB">>, <<"U+1F08", "U+0399">>, <<"U+1F09", "U+0399">>,
      <<"U+1F0A", "U+0399">>, <<"U+1F0B", "U+0399">>, <<"U+1F0C", "U+0399">>,
      <<"U+1F0D", "U+0399">>, <<"U+1F0E", "U+0399">>, <<"U+1F0F", "U+0399">>,
      <<"U+1F08", "U+0399">>, <<"U+1F09", "U+0399">>, <<"U+1F0A", "U+0399">>,
      <<"U+1F0B", "U+0399">>, <<"U+1F0C", "U+0399">>, <<"U+1F0D", "U+0399">>,
      <<"U+1F0E", "U+0399">>, <<"U+1F0F", "U+0399">>, <<"U+1F28", "U+0399">>,
      <<"U+1F29", "U+0399">>, <<"U+1F2A", "U+0399">>, <<"U+1F2B", "U+0399">>,
      <<"U+1F2C", "U+0399">>, <<"U+1F2D", "U+0399">>, <<"U+1F2E", "U+0399">>,
      <<"U+1F2F", "U+0399">>, <<"U+1F28", "U+0399">>, <<"U+1F29", "U+0399">>,
      <<"U+1F2A", "U+0399">>, <<"U+1F2B", "U+0399">>, <<"U+1F2C", "U+0399">>,
      <<"U+1F2D", "U+0399">>, <<"U+1F2E", "U+0399">>, <<"U+1F2F", "U+0399">>,
      <<"U+1F68", "U+0399">>, <<"U+1F69", "U+0399">>, <<"U+1F6A", "U+0399">>,
      <<"U+1F6B", "U+0399">>, <<"U+1F6C", "U+0399">>, <<"U+1F6D", "U+0399">>,
      <<"U+1F6E", "U+0399">>, <<"U+1F6F", "U+0399">>, <<"U+1F68", "U+0399">>,
      <<"U+1F69", "U+0399">>, <<"U+1F6A", "U+0399">>, <<"U+1F6B", "U+0399">>,
      <<"U+1F6C", "U+0399">>, <<"U+1F6D", "U+0399">>, <<"U+1F6E", "U+0399">>,
      <<"U+1F6F", "U+0399">>, <<"U+1FB8">>, <<"U+1FB9">>,
      <<"U+1FBA", "U+0399">>, <<"U+0391", "U+0399">>, <<"U+0386", "U+0399">>,
      <<"U+0391", "U+0342">>, <<"U+0391", "U+0342", "U+0399">>,
      <<"U+0391", "U+0399">>, <<"U+0399">>, <<"U+1FCA", "U+0399">>,
      <<"U+0397", "U+0399">>, <<"U+0389", "U+0399">>, <<"U+0397", "U+0342">>,
      <<"U+0397", "U+0342", "U+0399">>, <<"U+0397", "U+0399">>, <<"U+1FD8">>,
      <<"U+1FD9">>, <<"U+0399", "U+0308", "U+0300">>,
      <<"U+0399", "U+0308", "U+0301">>, <<"U+0399", "U+0342">>,
      <<"U+0399", "U+0308", "U+0342">>, <<"U+1FE8">>, <<"U+1FE9">>,
      <<"U+03A5", "U+0308", "U+0300">>, <<"U+03A5", "U+0308", "U+0301">>,
      <<"U+03A1", "U+0313">>, <<"U+1FEC">>, <<"U+03A5", "U+0342">>,
      <<"U+03A5", "U+0308", "U+0342">>, <<"U+1FFA", "U+0399">>,
      <<"U+03A9", "U+0399">>, <<"U+038F", "U+0399">>, <<"U+03A9", "U+0342">>,
      <<"U+03A9", "U+0342", "U+0399">>, <<"U+03A9", "U+0399">>, <<"U+2132">>,
      <<"U+2160">>, <<"U+2161">>, <<"U+2162">>, <<"U+2163">>, <<"U+2164">>,
      <<"U+2165">>, <<"U+2166">>, <<"U+2167">>, <<"U+2168">>, <<"U+2169">>,
      <<"U+216A">>, <<"U+216B">>, <<"U+216C">>, <<"U+216D">>, <<"U+216E">>,
      <<"U+216F">>, <<"U+2183">>, <<"U+24B6">>, <<"U+24B7">>, <<"U+24B8">>,
      <<"U+24B9">>, <<"U+24BA">>, <<"U+24BB">>, <<"U+24BC">>, <<"U+24BD">>,
      <<"U+24BE">>, <<"U+24BF">>, <<"U+24C0">>, <<"U+24C1">>, <<"U+24C2">>,
      <<"U+24C3">>, <<"U+24C4">>, <<"U+24C5">>, <<"U+24C6">>, <<"U+24C7">>,
      <<"U+24C8">>, <<"U+24C9">>, <<"U+24CA">>, <<"U+24CB">>, <<"U+24CC">>,
      <<"U+24CD">>, <<"U+24CE">>, <<"U+24CF">>, <<"U+2C00">>, <<"U+2C01">>,
      <<"U+2C02">>, <<"U+2C03">>, <<"U+2C04">>, <<"U+2C05">>, <<"U+2C06">>,
      <<"U+2C07">>, <<"U+2C08">>, <<"U+2C09">>, <<"U+2C0A">>, <<"U+2C0B">>,
      <<"U+2C0C">>, <<"U+2C0D">>, <<"U+2C0E">>, <<"U+2C0F">>, <<"U+2C10">>,
      <<"U+2C11">>, <<"U+2C12">>, <<"U+2C13">>, <<"U+2C14">>, <<"U+2C15">>,
      <<"U+2C16">>, <<"U+2C17">>, <<"U+2C18">>, <<"U+2C19">>, <<"U+2C1A">>,
      <<"U+2C1B">>, <<"U+2C1C">>, <<"U+2C1D">>, <<"U+2C1E">>, <<"U+2C1F">>,
      <<"U+2C20">>, <<"U+2C21">>, <<"U+2C22">>, <<"U+2C23">>, <<"U+2C24">>,
      <<"U+2C25">>, <<"U+2C26">>, <<"U+2C27">>, <<"U+2C28">>, <<"U+2C29">>,
      <<"U+2C2A">>, <<"U+2C2B">>, <<"U+2C2C">>, <<"U+2C2D">>, <<"U+2C2E">>,
      <<"U+2C2F">>, <<"U+2C60">>, <<"U+023A">>, <<"U+023E">>, <<"U+2C67">>,
      <<"U+2C69">>, <<"U+2C6B">>, <<"U+2C72">>, <<"U+2C75">>, <<"U+2C80">>,
      <<"U+2C82">>, <<"U+2C84">>, <<"U+2C86">>, <<"U+2C88">>, <<"U+2C8A">>,
      <<"U+2C8C">>, <<"U+2C8E">>, <<"U+2C90">>, <<"U+2C92">>, <<"U+2C94">>,
      <<"U+2C96">>, <<"U+2C98">>, <<"U+2C9A">>, <<"U+2C9C">>, <<"U+2C9E">>,
      <<"U+2CA0">>, <<"U+2CA2">>, <<"U+2CA4">>, <<"U+2CA6">>, <<"U+2CA8">>,
      <<"U+2CAA">>, <<"U+2CAC">>, <<"U+2CAE">>, <<"U+2CB0">>, <<"U+2CB2">>,
      <<"U+2CB4">>, <<"U+2CB6">>, <<"U+2CB8">>, <<"U+2CBA">>, <<"U+2CBC">>,
      <<"U+2CBE">>, <<"U+2CC0">>, <<"U+2CC2">>, <<"U+2CC4">>, <<"U+2CC6">>,
      <<"U+2CC8">>, <<"U+2CCA">>, <<"U+2CCC">>, <<"U+2CCE">>, <<"U+2CD0">>,
      <<"U+2CD2">>, <<"U+2CD4">>, <<"U+2CD6">>, <<"U+2CD8">>, <<"U+2CDA">>,
      <<"U+2CDC">>, <<"U+2CDE">>, <<"U+2CE0">>, <<"U+2CE2">>, <<"U+2CEB">>,
      <<"U+2CED">>, <<"U+2CF2">>, <<"U+10A0">>, <<"U+10A1">>, <<"U+10A2">>,
      <<"U+10A3">>, <<"U+10A4">>, <<"U+10A5">>, <<"U+10A6">>, <<"U+10A7">>,
      <<"U+10A8">>, <<"U+10A9">>, <<"U+10AA">>, <<"U+10AB">>, <<"U+10AC">>,
      <<"U+10AD">>, <<"U+10AE">>, <<"U+10AF">>, <<"U+10B0">>, <<"U+10B1">>,
      <<"U+10B2">>, <<"U+10B3">>, <<"U+10B4">>, <<"U+10B5">>, <<"U+10B6">>,
      <<"U+10B7">>, <<"U+10B8">>, <<"U+10B9">>, <<"U+10BA">>, <<"U+10BB">>,
      <<"U+10BC">>, <<"U+10BD">>, <<"U+10BE">>, <<"U+10BF">>, <<"U+10C0">>,
      <<"U+10C1">>, <<"U+10C2">>, <<"U+10C3">>, <<"U+10C4">>, <<"U+10C5">>,
      <<"U+10C7">>, <<"U+10CD">>, <<"U+A640">>, <<"U+A642">>, <<"U+A644">>,
      <<"U+A646">>, <<"U+A648">>, <<"U+A64A">>, <<"U+A64C">>, <<"U+A64E">>,
      <<"U+A650">>, <<"U+A652">>, <<"U+A654">>, <<"U+A656">>, <<"U+A658">>,
      <<"U+A65A">>, <<"U+A65C">>, <<"U+A65E">>, <<"U+A660">>, <<"U+A662">>,
      <<"U+A664">>, <<"U+A666">>, <<"U+A668">>, <<"U+A66A">>, <<"U+A66C">>,
      <<"U+A680">>, <<"U+A682">>, <<"U+A684">>, <<"U+A686">>, <<"U+A688">>,
      <<"U+A68A">>, <<"U+A68C">>, <<"U+A68E">>, <<"U+A690">>, <<"U+A692">>,
      <<"U+A694">>, <<"U+A696">>, <<"U+A698">>, <<"U+A69A">>, <<"U+A722">>,
      <<"U+A724">>, <<"U+A726">>, <<"U+A728">>, <<"U+A72A">>, <<"U+A72C">>,
      <<"U+A72E">>, <<"U+A732">>, <<"U+A734">>, <<"U+A736">>, <<"U+A738">>,
      <<"U+A73A">>, <<"U+A73C">>, <<"U+A73E">>, <<"U+A740">>, <<"U+A742">>,
      <<"U+A744">>, <<"U+A746">>, <<"U+A748">>, <<"U+A74A">>, <<"U+A74C">>,
      <<"U+A74E">>, <<"U+A750">>, <<"U+A752">>, <<"U+A754">>, <<"U+A756">>,
      <<"U+A758">>, <<"U+A75A">>, <<"U+A75C">>, <<"U+A75E">>, <<"U+A760">>,
      <<"U+A762">>, <<"U+A764">>, <<"U+A766">>, <<"U+A768">>, <<"U+A76A">>,
      <<"U+A76C">>, <<"U+A76E">>, <<"U+A779">>, <<"U+A77B">>, <<"U+A77E">>,
      <<"U+A780">>, <<"U+A782">>, <<"U+A784">>, <<"U+A786">>, <<"U+A78B">>,
      <<"U+A790">>, <<"U+A792">>, <<"U+A7C4">>, <<"U+A796">>, <<"U+A798">>,
      <<"U+A79A">>, <<"U+A79C">>, <<"U+A79E">>, <<"U+A7A0">>, <<"U+A7A2">>,
      <<"U+A7A4">>, <<"U+A7A6">>, <<"U+A7A8">>, <<"U+A7B4">>, <<"U+A7B6">>,
      <<"U+A7B8">>, <<"U+A7BA">>, <<"U+A7BC">>, <<"U+A7BE">>, <<"U+A7C0">>,
      <<"U+A7C2">>, <<"U+A7C7">>, <<"U+A7C9">>, <<"U+A7D0">>, <<"U+A7D6">>,
      <<"U+A7D8">>, <<"U+A7F5">>, <<"U+A7B3">>, <<"U+13A0">>, <<"U+13A1">>,
      <<"U+13A2">>, <<"U+13A3">>, <<"U+13A4">>, <<"U+13A5">>, <<"U+13A6">>,
      <<"U+13A7">>, <<"U+13A8">>, <<"U+13A9">>, <<"U+13AA">>, <<"U+13AB">>,
      <<"U+13AC">>, <<"U+13AD">>, <<"U+13AE">>, <<"U+13AF">>, <<"U+13B0">>,
      <<"U+13B1">>, <<"U+13B2">>, <<"U+13B3">>, <<"U+13B4">>, <<"U+13B5">>,
      <<"U+13B6">>, <<"U+13B7">>, <<"U+13B8">>, <<"U+13B9">>, <<"U+13BA">>,
      <<"U+13BB">>, <<"U+13BC">>, <<"U+13BD">>, <<"U+13BE">>, <<"U+13BF">>,
      <<"U+13C0">>, <<"U+13C1">>, <<"U+13C2">>, <<"U+13C3">>, <<"U+13C4">>,
      <<"U+13C5">>, <<"U+13C6">>, <<"U+13C7">>, <<"U+13C8">>, <<"U+13C9">>,
      <<"U+13CA">>, <<"U+13CB">>, <<"U+13CC">>, <<"U+13CD">>, <<"U+13CE">>,
      <<"U+13CF">>, <<"U+13D0">>, <<"U+13D1">>, <<"U+13D2">>, <<"U+13D3">>,
      <<"U+13D4">>, <<"U+13D5">>, <<"U+13D6">>, <<"U+13D7">>, <<"U+13D8">>,
      <<"U+13D9">>, <<"U+13DA">>, <<"U+13DB">>, <<"U+13DC">>, <<"U+13DD">>,
      <<"U+13DE">>, <<"U+13DF">>, <<"U+13E0">>, <<"U+13E1">>, <<"U+13E2">>,
      <<"U+13E3">>, <<"U+13E4">>, <<"U+13E5">>, <<"U+13E6">>, <<"U+13E7">>,
      <<"U+13E8">>, <<"U+13E9">>, <<"U+13EA">>, <<"U+13EB">>, <<"U+13EC">>,
      <<"U+13ED">>, <<"U+13EE">>, <<"U+13EF">>, <<"F", "F">>, <<"F", "I">>,
      <<"F", "L">>, <<"F", "F", "I">>, <<"F", "F", "L">>, <<"S", "T">>,
      <<"S", "T">>, <<"U+0544", "U+0546">>, <<"U+0544", "U+0535">>,
      <<"U+0544", "U+053B">>, <<"U+054E", "U+0546">>, <<"U+0544", "U+053D">>,
      <<"U+FF21">>, <<"U+FF22">>, <<"U+FF23">>, <<"U+FF24">>, <<"U+FF25">>,
      <<"U+FF26">>, <<"U+FF27">>, <<"U+FF28">>, <<"U+FF29">>, <<"U+FF2A">>,
      <<"U+FF2B">>, <<"U+FF2C">>, <<"U+FF2D">>, <<"U+FF2E">>, <<"U+FF2F">>,
      <<"U+FF30">>, <<"U+FF31">>, <<"U+FF32">>, <<"U+FF33">>, <<"U+FF34">>,
      <<"U+FF35">>, <<"U+FF36">>, <<"U+FF37">>, <<"U+FF38">>, <<"U+FF39">>,
      <<"U+FF3A">>, <<"U+10400">>, <<"U+10401">>, <<"U+10402">>,
      <<"U+10403">>, <<"U+10404">>, <<"U+10405">>, <<"U+10406">>,
      <<"U+10407">>, <<"U+10408">>, <<"U+10409">>, <<"U+1040A">>,
      <<"U+1040B">>, <<"U+1040C">>, <<"U+1040D">>, <<"U+1040E">>,
      <<"U+1040F">>, <<"U+10410">>, <<"U+10411">>, <<"U+10412">>,
      <<"U+10413">>, <<"U+10414">>, <<"U+10415">>, <<"U+10416">>,
      <<"U+10417">>, <<"U+10418">>, <<"U+10419">>, <<"U+1041A">>,
      <<"U+1041B">>, <<"U+1041C">>, <<"U+1041D">>, <<"U+1041E">>,
      <<"U+1041F">>, <<"U+10420">>, <<"U+10421">>, <<"U+10422">>,
      <<"U+10423">>, <<"U+10424">>, <<"U+10425">>, <<"U+10426">>,
      <<"U+10427">>, <<"U+104B0">>, <<"U+104B1">>, <<"U+104B2">>,
      <<"U+104B3">>, <<"U+104B4">>, <<"U+104B5">>, <<"U+104B6">>,
      <<"U+104B7">>, <<"U+104B8">>, <<"U+104B9">>, <<"U+104BA">>,
      <<"U+104BB">>, <<"U+104BC">>, <<"U+104BD">>, <<"U+104BE">>,
      <<"U+104BF">>, <<"U+104C0">>, <<"U+104C1">>, <<"U+104C2">>,
      <<"U+104C3">>, <<"U+104C4">>, <<"U+104C5">>, <<"U+104C6">>,
      <<"U+104C7">>, <<"U+104C8">>, <<"U+104C9">>, <<"U+104CA">>,
      <<"U+104CB">>, <<"U+104CC">>, <<"U+104CD">>, <<"U+104CE">>,
      <<"U+104CF">>, <<"U+104D0">>, <<"U+104D1">>, <<"U+104D2">>,
      <<"U+104D3">>, <<"U+10570">>, <<"U+10571">>, <<"U+10572">>,
      <<"U+10573">>, <<"U+10574">>, <<"U+10575">>, <<"U+10576">>,
      <<"U+10577">>, <<"U+10578">>, <<"U+10579">>, <<"U+1057A">>,
      <<"U+1057C">>, <<"U+1057D">>, <<"U+1057E">>, <<"U+1057F">>,
      <<"U+10580">>, <<"U+10581">>, <<"U+10582">>, <<"U+10583">>,
      <<"U+10584">>, <<"U+10585">>, <<"U+10586">>, <<"U+10587">>,
      <<"U+10588">>, <<"U+10589">>, <<"U+1058A">>, <<"U+1058C">>,
      <<"U+1058D">>, <<"U+1058E">>, <<"U+1058F">>, <<"U+10590">>,
      <<"U+10591">>, <<"U+10592">>, <<"U+10594">>, <<"U+10595">>,
      <<"U+10C80">>, <<"U+10C81">>, <<"U+10C82">>, <<"U+10C83">>,
      <<"U+10C84">>, <<"U+10C85">>, <<"U+10C86">>, <<"U+10C87">>,
      <<"U+10C88">>, <<"U+10C89">>, <<"U+10C8A">>, <<"U+10C8B">>,
      <<"U+10C8C">>, <<"U+10C8D">>, <<"U+10C8E">>, <<"U+10C8F">>,
      <<"U+10C90">>, <<"U+10C91">>, <<"U+10C92">>, <<"U+10C93">>,
      <<"U+10C94">>, <<"U+10C95">>, <<"U+10C96">>, <<"U+10C97">>,
      <<"U+10C98">>, <<"U+10C99">>, <<"U+10C9A">>, <<"U+10C9B">>,
      <<"U+10C9C">>, <<"U+10C9D">>, <<"U+10C9E">>, <<"U+10C9F">>,
      <<"U+10CA0">>, <<"U+10CA1">>, <<"U+10CA2">>, <<"U+10CA3">>,
      <<"U+10CA4">>, <<"U+10CA5">>, <<"U+10CA6">>, <<"U+10CA7">>,
      <<"U+10CA8">>, <<"U+10CA9">>, <<"U+10CAA">>, <<"U+10CAB">>,
      <<"U+10CAC">>, <<"U+10CAD">>, <<"U+10CAE">>, <<"U+10CAF">>,
      <<"U+10CB0">>, <<"U+10CB1">>, <<"U+10CB2">>, <<"U+118A0">>,
      <<"U+118A1">>, <<"U+118A2">>, <<"U+118A3">>, <<"U+118A4">>,
      <<"U+118A5">>, <<"U+118A6">>, <<"U+118A7">>, <<"U+118A8">>,
      <<"U+118A9">>, <<"U+118AA">>, <<"U+118AB">>, <<"U+118AC">>,
      <<"U+118AD">>, <<"U+118AE">>, <<"U+118AF">>, <<"U+118B0">>,
      <<"U+118B1">>, <<"U+118B2">>, <<"U+118B3">>, <<"U+118B4">>,
      <<"U+118B5">>, <<"U+118B6">>, <<"U+118B7">>, <<"U+118B8">>,
      <<"U+118B9">>, <<"U+118BA">>, <<"U+118BB">>, <<"U+118BC">>,
      <<"U+118BD">>, <<"U+118BE">>, <<"U+118BF">>, <<"U+16E40">>,
      <<"U+16E41">>, <<"U+16E42">>, <<"U+16E43">>, <<"U+16E44">>,
      <<"U+16E45">>, <<"U+16E46">>, <<"U+16E47">>, <<"U+16E48">>,
      <<"U+16E49">>, <<"U+16E4A">>, <<"U+16E4B">>, <<"U+16E4C">>,
      <<"U+16E4D">>, <<"U+16E4E">>, <<"U+16E4F">>, <<"U+16E50">>,
      <<"U+16E51">>, <<"U+16E52">>, <<"U+16E53">>, <<"U+16E54">>,
      <<"U+16E55">>, <<"U+16E56">>, <<"U+16E57">>, <<"U+16E58">>,
      <<"U+16E59">>, <<"U+16E5A">>, <<"U+16E5B">>, <<"U+16E5C">>,
      <<"U+16E5D">>, <<"U+16E5E">>, <<"U+16E5F">>, <<"U+1E900">>,
      <<"U+1E901">>, <<"U+1E902">>, <<"U+1E903">>, <<"U+1E904">>,
      <<"U+1E905">>, <<"U+1E906">>, <<"U+1E907">>, <<"U+1E908">>,
      <<"U+1E909">>, <<"U+1E90A">>, <<"U+1E90B">>, <<"U+1E90C">>,
      <<"U+1E90D">>, <<"U+1E90E">>, <<"U+1E90F">>, <<"U+1E910">>,
      <<"U+1E911">>, <<"U+1E912">>, <<"U+1E913">>, <<"U+1E914">>,
      <<"U+1E915">>, <<"U+1E916">>, <<"U+1E917">>, <<"U+1E918">>,
      <<"U+1E919">>, <<"U+1E91A">>, <<"U+1E91B">>, <<"U+1E91C">>,
      <<"U+1E91D">>, <<"U+1E91E">>, <<"U+1E91F">>, <<"U+1E920">>,
      <<"U+1E921">>>>

LowersBeyondAscii == {LowerBeyondAscii[i] : i \in 1..Len(LowerBeyondAscii)}

\* c.upper() of one character: a sequence of characters
upper_char(c) ==
    IF c \in DOMAIN LowerToUpper THEN <<LowerToUpper[c]>>
    ELSE IF c \in LowersBeyondAscii
    THEN UpperBeyondAscii[CHOOSE i \in 1..Len(LowerBeyondAscii) :
                             LowerBeyondAscii[i] = c]
    ELSE <<c>>

\* str.upper()
RECURSIVE upper(_)
upper(s) == IF s = <<>> THEN <<>> ELSE upper_char(Head(s)) \o upper(Tail(s))

\* the characters str.isspace() holds true of, which strip(), split() and
\* \s of re take for blanks: tab, line feed, vertical tab, form feed,
\* carriage return, the separators 1C-1F, the space, next line (85), the
\* no-break space (A0), and the spaces and line separators above U+00FF
SpacesBeyondLatin1 ==
    {"U+1680", "U+2000", "U+2001", "U+2002", "U+2003", "U+2004", "U+2005",
     "U+2006", "U+2007", "U+2008", "U+2009", "U+200A", "U+2028", "U+2029",
     "U+202F", "U+205F", "U+3000"}
Whitespace ==
    {"\t", "\n", "", "\f", "\r", "", "", "", "", " ",
     "", " "} \cup SpacesBeyondLatin1

RECURSIVE lstrip(_)
lstrip(s) ==
    IF s # <<>> /\ Head(s) \in Whitespace THEN lstrip(Tail(s)) ELSE s

RECURSIVE rstrip(_)
rstrip(s) ==
    IF s # <<>> /\ s[Len(s)] \in Whitespace
    THEN rstrip(SubSeq(s, 1, Len(s) - 1))
    ELSE s

\* str.strip()
strip(s) == rstrip(lstrip(s))

\* str.startswith(p)
startswith(s, p) == Len(s) >= Len(p) /\ SubSeq(s, 1, Len(p)) = p

\* the slice s[n:]
SliceFrom(s, n) == IF n >= Len(s) THEN <<>> ELSE SubSeq(s, n + 1, Len(s))

\* the slice s[:n]
SliceTo(s, n) == IF n >= Len(s) THEN s ELSE SubSeq(s, 1, n)

\* truthiness of a str-or-None value
Truthy(s) == s # <<>> /\ s # None

PH == <<"P", "H">>
TJ == <<"T", "J">>
StartsPHorTJ(s) == startswith(s, PH) \/ startswith(s, TJ)

-----------------------------------------------------------------------------
(* The static tables *)

\* app.py format_airport_code / fetch_datis: the 3-letter special cases
hawaiian_airports ==
    { <<"H","N","L">>, <<"O","G","G">>, <<"K","O","A">>,
      <<"L","I","H">>, <<"I","T","O">> }

pr_airports == { <<"S","J","U">>, <<"B","Q","N">>, <<"P","S","E">> }

\* app.py convert_to_iata: ICAO -> IATA, as <<key, value>> pairs
special_cases ==
    { << <<"P","H","N","L">>, <<"H","N","L">> >>,
      << <<"P","H","O","G">>, <<"O","G","G">> >>,
      << <<"P","H","K","O">>, <<"K","O","A">> >>,
      << <<"P","H","L","I">>, <<"L","I","H">> >>,
      << <<"P","H","T","O">>, <<"I","T","O">> >>,
      << <<"T","J","S","J">>, <<"S","J","U">> >>,
      << <<"T","J","B","Q">>, <<"B","Q","N">> >>,
      << <<"T","J","P","S">>, <<"P","S","E">> >>,
      << <<"E","G","L","L">>, <<"L","H","R">> >>,
      << <<"L","F","P","G">>, <<"C","D","G">> >>,
      << <<"E","D","D","F">>, <<"F","R","A">> >> }

\* V4.py fetchAirportStatus: ICAO -> IATA
hawaii_airports ==
    { << <<"P","H","N","L">>, <<"H","N","L">> >>,
      << <<"P","H","T","O">>, <<"I","T","O">> >>,
      << <<"P","H","O","G">>, <<"O","G","G">> >>,
      << <<"P","H","K","O">>, <<"K","O","A">> >>,
      << <<"P","H","M","K">>, <<"M","K","K">> >>,
      << <<"P","H","N","Y">>, <<"L","N","Y">> >>,
      << <<"P","H","L","I">>, <<"L","I","H">> >>,
      << <<"P","H","M","U">>, <<"M","U","E">> >>,
      << <<"P","H","J","R">>, <<"J","R","F">> >>,
      << <<"P","H","H","N">>, <<"H","N","M">> >>,
      << <<"P","H","P","A">>, <<"P","A","K">> >>,
      << <<"P","H","U","P">>, <<"U","P","P">> >>,
      << <<"P","H","L","U">>, <<"L","U","P">> >>,
      << <<"P","H","J","H">>, <<"J","H","M">> >>,
      << <<"P","H","D","H">>, <<"H","D","H">> >>,
      << <<"P","H","I","K">>, <<"H","I","K">> >>,
      << <<"P","H","N","P">>, <<"N","P","S">> >>,
      << <<"P","H","N","G">>, <<"N","G","F">> >>,
      << <<"P","H","B","K">>, <<"B","K","H">> >>,
      << <<"P","H","S","F">>, <<"B","S","F">> >>,
      << <<"P","H","H","F">>, <<"H","F","S">> >>,
      << <<"P","H","H","I">>, <<"H","H","I">> >> }

puerto_rico_airports ==
    { << <<"T","J","S","J">>, <<"S","J","U">> >>,
      << <<"T","J","B","Q">>, <<"B","Q","N">> >>,
      << <<"T","J","P","S">>, <<"P","S","E">> >>,
      << <<"T","J","M","Z">>, <<"M","A","Z">> >>,
      << <<"T","J","I","G">>, <<"V","Q","S">> >>,
      << <<"T","J","C","P">>, <<"C","P","X">> >> }

\* dict membership and lookup
Keys(table) == {kv[1] : kv \in table}
Lookup(table, key) == (CHOOSE kv \in table : kv[1] = key)[2]

-----------------------------------------------------------------------------
(* The conversions *)

\* format_airport_code without the "starts with PH/TJ" exemption
format_airport_code_no_exemption(code) ==
    IF ~Truthy(code) THEN None
    ELSE LET c == upper(strip(code)) IN
         IF Len(c) = 3 /\ c \in hawaiian_airports THEN PH \o c
         ELSE IF Len(c) = 3 /\ c \in pr_airports THEN TJ \o c
         ELSE IF Len(c) = 4 THEN c
         ELSE IF Len(c) = 3 THEN <<"K">> \o c
         ELSE c

\* app.py format_airport_code
format_airport_code(code) ==
    IF ~Truthy(code) THEN None
    ELSE LET c == upper(strip(code)) IN
         IF Len(c) = 3 /\ c \in hawaiian_airports THEN PH \o c
         ELSE IF Len(c) = 3 /\ c \in pr_airports THEN TJ \o c
         ELSE IF Len(c) = 4 \/ StartsPHorTJ(c) THEN c
         ELSE IF Len(c) = 3 THEN <<"K">> \o c
         ELSE c

\* V4.py fetchWeather.format_airport_code (no strip, no upper, no table)
gui_format_airport_code(code) ==
    IF ~Truthy(code) THEN None
    ELSE IF Len(code) = 4 \/ StartsPHorTJ(code) THEN code
    ELSE <<"K">> \o code

\* convert_to_iata whose last rule strips the first letter at any length
convert_to_iata_strip_any(icao_code) ==
    IF ~Truthy(icao_code) THEN <<>>
    ELSE IF upper(icao_code) \in Keys(special_cases)
         THEN Lookup(special_cases, upper(icao_code))
    ELSE IF startswith(icao_code, <<"K">>) /\ Len(icao_code) = 4
         THEN SliceFrom(icao_code, 1)
    ELSE IF startswith(icao_code, PH) /\ Len(icao_code) = 4
         THEN SliceFrom(icao_code, 2)
    ELSE IF startswith(icao_code, TJ) /\ Len(icao_code) = 4
         THEN SliceFrom(icao_code, 2)
    ELSE IF Len(icao_code) = 3 THEN icao_code
    ELSE SliceFrom(icao_code, 1)

\* convert_to_iata that strips one letter, not two, from a PH/TJ code
convert_to_iata_strip_one(icao_code) ==
    IF ~Truthy(icao_code) THEN <<>>
    ELSE IF upper(icao_code) \in Keys(special_cases)
         THEN Lookup(special_cases, upper(icao_code))
    ELSE IF Len(icao_code) = 3 THEN icao_code
    ELSE IF Len(icao_code) = 4 THEN SliceFrom(icao_code, 1)
    ELSE icao_code

\* app.py convert_to_iata
convert_to_iata(icao_code) ==
    IF ~Truthy(icao_code) THEN <<>>
    ELSE IF upper(icao_code) \in Keys(special_cases)
         THEN Lookup(special_cases, upper(icao_code))
    ELSE IF startswith(icao_code, <<"K">>) /\ Len(icao_code) = 4
         THEN SliceFrom(icao_code, 1)
    ELSE IF startswith(icao_code, PH) /\ Len(icao_code) = 4
         THEN SliceFrom(icao_code, 2)
    ELSE IF startswith(icao_code, TJ) /\ Len(icao_code) = 4
         THEN SliceFrom(icao_code, 2)
    ELSE IF Len(icao_code) = 3 THEN icao_code
    ELSE IF Len(icao_code) = 4 THEN SliceFrom(icao_code, 1)
    ELSE icao_code

\* V4.py fetchAirportStatus: the code sent to the FAA endpoint
faa_code(airport_code) ==
    IF Len(airport_code) = 4
    THEN IF upper(airport_code) \in Keys(hawaii_airports)
         THEN Lookup(hawaii_airports, upper(airport_code))
         ELSE IF upper(airport_code) \in Keys(puerto_rico_airports)
         THEN Lookup(puerto_rico_airports, upper(airport_code))
         ELSE IF startswith(airport_code, <<"K">>)
         THEN SliceFrom(airport_code, 1)
         ELSE SliceFrom(airport_code, 1)
    ELSE airport_code

-----------------------------------------------------------------------------
(* Inputs of the conversions *)

\* longest enumerated input string
MaxCodeLen == 4

\* characters of the enumerated input strings
CodeChars == {"K", "P", "H", "T", "J", "X", "h", " "}

RECURSIVE StringsOfLen(_)
StringsOfLen(n) ==
    IF n = 0 THEN {<<>>}
    ELSE {<<ch>> \o s : ch \in CodeChars, s \in StringsOfLen(n - 1)}

\* codes of the tables and of the reference examples
NamedCodes ==
    hawaiian_airports \cup pr_airports
      \cup Keys(special_cases) \cup Keys(hawaii_airports)
      \cup Keys(puerto_rico_airports)
      \cup { <<"J","F","K">>, <<"L","A","X">>, <<"P","H","X">>,
             <<"K","J","F","K">>, <<"j","f","k">>, <<"e","g","l","l">>,
             <<"p","h","n","l">>, <<"E","G","K","K">>,
             <<"ß","f","k">>, <<"é","g","l","l">>, <<"\t","j","f","k">>,
             <<"j","f","k","\n">>, <<" ","h","n","l","\t">>,
             <<"U+0131","f","k">>, <<"U+3000","j","f","k">>,
             <<"U+FB01","x">> }

InputCodes ==
    NamedCodes \cup UNION {StringsOfLen(n) : n \in 0..MaxCodeLen}

-----------------------------------------------------------------------------
(* Specification of the conversions: each action applies one function *)

NormInit ==
    /\ nCode \in InputCodes
    /\ nStage = 0
    /\ nICAO = Unset
    /\ nICAOgui = Unset
    /\ nIATAin = Unset
    /\ nFaa = Unset
    /\ nIATA = Unset
    /\ nBack = Unset

ApplyFormatWeb ==
    /\ nStage = 0
    /\ nICAO' = format_airport_code(nCode)
    /\ nStage' = 1
    /\ UNCHANGED <<nCode, nICAOgui, nIATAin, nFaa, nIATA, nBack>>
    /\ UNCHANGED <<webVars, guiVars, clsVars, wxVars, tglVars>>

ApplyFormatGui ==
    /\ nStage = 1
    /\ nICAOgui' = gui_format_airport_code(nCode)
    /\ nStage' = 2
    /\ UNCHANGED <<nCode, nICAO, nIATAin, nFaa, nIATA, nBack>>
    /\ UNCHANGED <<webVars, guiVars, clsVars, wxVars, tglVars>>

ApplyConvertWeb ==
    /\ nStage = 2
    /\ nIATAin' = convert_to_iata(nCode)
    /\ nStage' = 3
    /\ UNCHANGED <<nCode, nICAO, nICAOgui, nFaa, nIATA, nBack>>
    /\ UNCHANGED <<webVars, guiVars, clsVars, wxVars, tglVars>>

ApplyFaaGui ==
    /\ nStage = 3
    /\ nFaa' = faa_code(nCode)
    /\ nStage' = 4
    /\ UNCHANGED <<nCode, nICAO, nICAOgui, nIATAin, nIATA, nBack>>
    /\ UNCHANGED <<webVars, guiVars, clsVars, wxVars, tglVars>>

\* convert_to_iata(format_airport_code(c))
ApplyRoundTripIATA ==
    /\ nStage = 4
    /\ nIATA' = convert_to_iata(nICAO)
    /\ nStage' = 5
    /\ UNCHANGED <<nCode, nICAO, nICAOgui, nIATAin, nFaa, nBack>>
    /\ UNCHANGED <<webVars, guiVars, clsVars, wxVars, tglVars>>

\* format_airport_code(convert_to_iata(format_airport_code(c)))
ApplyRoundTripICAO ==
    /\ nStage = 5
    /\ nBack' = format_airport_code(nIATA)
    /\ nStage' = 6
    /\ UNCHANGED <<nCode, nICAO, nICAOgui, nIATAin, nFaa, nIATA>>
    /\ UNCHANGED <<webVars, guiVars, clsVars, wxVars, tglVars>>

NormNext ==
    \/ ApplyFormatWeb
    \/ ApplyFormatGui
    \/ ApplyConvertWeb
    \/ ApplyFaaGui
    \/ ApplyRoundTripIATA
    \/ ApplyRoundTripICAO

NormOff ==
    /\ nCode = <<>>
    /\ nStage = 0
    /\ nICAO = Unset
    /\ nICAOgui = Unset
    /\ nIATAin = Unset
    /\ nFaa = Unset
    /\ nIATA = Unset
    /\ nBack = Unset
-----------------------------------------------------------------------------
(* Python values of the handlers' results *)

\* a str value: which text it is, and, for a DATIS / status block, the
\* sections it is joined from; upstreamError is set on a text taken from an
\* answer as it is when the answer starts with 'Weather data not available'
\* or holds 'Error'
PyStr(kind, sections) ==
    [ty |-> "str", kind |-> kind, sections |-> sections,
     upstreamError |-> FALSE]
PyNone ==
    [ty |-> "NoneType", kind |-> "None", sections |-> <<>>,
     upstreamError |-> FALSE]

\* response.text returned as it is (app.py lines 75-76, 88-89), or put
\* into the METAR lines (lines 100-101): e tells whether the answer held
\* the words colorize_weather takes for an error message
UpstreamText(kind, e) == [PyStr(kind, <<>>) EXCEPT !.upstreamError = e]

\* f'{Role} DATIS ({code}):\n{text}' -- str(None) is "None"
Section(role, code, val) == [role |-> role, code |-> code, text |-> val.kind]

-----------------------------------------------------------------------------
(* The HTTP client: what one requests.get can come to *)

\* a text endpoint: 200 with more than 3 lines, 200 with 1..3 lines,
\* 200 with an empty body, another status, a raised RequestException,
\* no answer at all
TextOutcomes == {"ok", "short", "empty", "non200", "raise", "noanswer"}

\* an endpoint answering a JSON list of objects: the documented body, a list
\* of objects without the expected keys, a JSON object, a JSON number, the
\* empty list, a body that is not JSON, another status, a raised
\* RequestException, no answer at all
ListOutcomes ==
    {"ok", "lacking", "object", "scalar", "emptylist", "malformed",
     "non200", "raise", "noanswer"}

\* the FAA endpoint, answering a JSON object: the documented body, an
\* object holding only the key 'status', an object without it, a JSON
\* number, a body that is not JSON, another status, a raised
\* RequestException, no answer at all
ObjectOutcomes ==
    {"ok", "bare", "lacking", "scalar", "malformed",
     "non200", "raise", "noanswer"}

\* requests.get(url, timeout=n) raises: a connection error, or Timeout when
\* no answer comes
RaisesWithTimeout(o) == o \in {"raise", "noanswer"}

\* what the body of an answer may read as: only a body that is not blank
\* can start with 'Weather data not available' or hold 'Error'
ErrorWords(o) == IF o \in {"ok", "short"} THEN BOOLEAN ELSE {FALSE}

Request(fn, ep, ids, role) == [fn |-> fn, ep |-> ep, ids |-> ids, role |-> role]
NoRequest == Request("none", "none", <<>>, 0)

-----------------------------------------------------------------------------
(* app.py: the Flask handler get_weather and the retrievals it calls *)

\* a field of the posted JSON object: absent, a non-string (a number other
\* than 0), or a string
Absent == [ty |-> "absent", s |-> <<>>]
Num == [ty |-> "num", s |-> <<>>]
StrField(s) == [ty |-> "str", s |-> s]

\* bodies posted to /get_weather
WebDepartures ==
    {Absent, Num} \cup
      {StrField(s) : s \in { <<>>, <<" ">>, <<"j","f","k">>, <<"H","N","L">> }}
WebArrivals ==
    {Absent, Num} \cup {StrField(s) : s \in { <<>>, <<"P","H","N","L">> }}
WebAlternates ==
    {Absent, Num} \cup {StrField(s) : s \in { <<>>, <<" ">>, <<"P","H","X">> }}
Body(kind, dep, arr, alt) ==
    [kind |-> kind, departure |-> dep, arrival |-> arr, alternate |-> alt]
\* "nojson": request.json raises; "null": request.json is None
Bodies ==
    { Body("nojson", Absent, Absent, Absent),
      Body("null", Absent, Absent, Absent) }
      \cup { Body("object", d, a, x) :
                d \in WebDepartures, a \in WebArrivals, x \in WebAlternates }
NoBody == Body("none", Absent, Absent, Absent)

\* data.get(f): truthy
FieldTruthy(v) == v.ty = "num" \/ (v.ty = "str" /\ v.s # <<>>)
\* data.get(f, '').strip() raises AttributeError on a non-string
FieldRaises(v) == v.ty = "num"
\* data.get(f, '').strip().upper() if data.get(f) else ''
ParseField(v) == IF FieldTruthy(v) THEN upper(strip(v.s)) ELSE <<>>

\* get_weather lines 405-408 raise
ParseRaises(body) ==
    \/ body.kind # "object"
    \/ FieldRaises(body.departure)
    \/ FieldRaises(body.arrival)
    \/ FieldRaises(body.alternate)

JsonResponse(weather, datis, status) ==
    [kind |-> "json",
     json |-> [f \in {"weather", "datis", "status", "utc_time"} |->
                 CASE f = "weather" -> weather
                   [] f = "datis" -> datis
                   [] f = "status" -> status
                   [] OTHER -> PyStr("%Y-%m-%d %H:%M:%S UTC", <<>>)]]
\* the exception left get_weather: Flask answers 500
RaisedResponse == [kind |-> "raised"]
NoResponse == [kind |-> "pending"]

\* get_weather without its outer try/except: the exception leaves the view
UnhandledResponse == RaisedResponse

\* get_weather lines 467-475
GlobalErrorResponse ==
    JsonResponse(PyStr("Error processing request", <<>>),
                 PyStr("Error processing request", <<>>),
                 PyStr("Error processing request", <<>>))

\* get_weather lines 411-417
ValidationResponse ==
    JsonResponse(PyStr("Please enter both departure and arrival airports", <<>>),
                 PyStr("Please enter both departure and arrival airports", <<>>),
                 PyStr("Please enter both departure and arrival airports", <<>>))

\* fetch_weather lines 41-56: the list airport_codes
AppendIfTruthy(list, code) == IF Truthy(code) THEN Append(list, code) ELSE list
airport_codes(airport1, airport2, airport3) ==
    LET l1 == IF Truthy(airport1)
              THEN AppendIfTruthy(<<>>, format_airport_code(airport1))
              ELSE <<>>
        l2 == IF Truthy(airport2)
              THEN AppendIfTruthy(l1, format_airport_code(airport2))
              ELSE l1
    IN  IF Truthy(airport3) /\ Truthy(strip(airport3))
        THEN AppendIfTruthy(l2, format_airport_code(airport3))
        ELSE l2

\* colorize_weather lines 113-118 and 155, by the kind of text it is given:
\* line 117 puts the whole text in a red span when it starts with 'Weather
\* data not available' or holds 'Error', be it a text fetch_weather wrote
\* (lines 107, 109) or one an endpoint sent
colorize_weather(data) ==
    IF data.ty # "str" \/ data.kind = ""
    THEN PyStr("No weather data available", <<>>)
    ELSE IF \/ data.kind \in {"Weather data not available",
                              "Error fetching weather data"}
            \/ data.upstreamError
    THEN PyStr("red:" \o data.kind, <<>>)
    ELSE PyStr("colorized:" \o data.kind, <<>>)

\* fetch_datis lines 216-241: codes_to_try
codes_to_try(airport_code) ==
    IF Len(airport_code) = 4
    THEN IF startswith(airport_code, <<"K">>)
         THEN <<airport_code, SliceFrom(airport_code, 1)>>
         ELSE IF StartsPHorTJ(airport_code)
         THEN <<airport_code, SliceFrom(airport_code, 2), SliceFrom(airport_code, 1)>>
         ELSE <<airport_code, SliceFrom(airport_code, 1)>>
    ELSE IF Len(airport_code) = 3
    THEN <<airport_code, <<"K">> \o airport_code>>
    ELSE <<airport_code>>

\* fetch_datis lines 247-255: the ICAO code of the METAR request
datis_icao_code(airport_code) ==
    IF Len(airport_code) = 3
    THEN IF airport_code \in hawaiian_airports THEN PH \o airport_code
         ELSE IF airport_code \in pr_airports THEN TJ \o airport_code
         ELSE <<"K">> \o airport_code
    ELSE airport_code

\* fetch_airport_status lines 341-344: the ICAO code of the METAR request
status_icao_code(original_code) ==
    IF Len(original_code) = 3 /\ ~StartsPHorTJ(original_code)
    THEN <<"K">> \o original_code
    ELSE original_code

\* the handler is not running (another tool is being exercised)
WebOff ==
    /\ wPc = "off"
    /\ wBody = NoBody
    /\ wDep = Unset /\ wArr = Unset /\ wAlt = Unset
    /\ wIds = <<>> /\ wIdx = 0 /\ wGot = <<>> /\ wRole = 0
    /\ wWeather = PyNone /\ wDatis = <<>> /\ wStatus = <<>>
    /\ wReq = NoRequest
    /\ wTried = <<>>
    /\ wResp = NoResponse

\* a POST /get_weather has arrived
WebInit ==
    /\ wPc = "request"
    /\ wBody \in Bodies
    /\ wDep = Unset /\ wArr = Unset /\ wAlt = Unset
    /\ wIds = <<>> /\ wIdx = 0 /\ wGot = <<>> /\ wRole = 0
    /\ wWeather = PyNone /\ wDatis = <<>> /\ wStatus = <<>>
    /\ wReq = NoRequest
    /\ wTried = <<>>
    /\ wResp = NoResponse

\* the airport a DATIS / status retrieval is for
WebRoleCode(r) == CASE r = 1 -> wDep [] r = 2 -> wArr [] OTHER -> wAlt
RoleName(r) ==
    CASE r = 1 -> "Departure" [] r = 2 -> "Arrival" [] OTHER -> "Alternate"

\* get_weather lines 437-440 / 452-455: the joined block
web_output(results) ==
    PyStr("sections",
          [r \in 1..Len(results) |->
              Section(RoleName(r), WebRoleCode(r), results[r])])

\* get_weather lines 404-420, and fetch_weather lines 38-62 up to its first
\* request
get_weather ==
    /\ wPc = "request"
    /\ IF ParseRaises(wBody)
       THEN /\ wPc' = "done"
            /\ wResp' = GlobalErrorResponse
            /\ UNCHANGED <<wDep, wArr, wAlt, wIds, wWeather, wRole>>
       ELSE LET departure == ParseField(wBody.departure)
                arrival == ParseField(wBody.arrival)
                alternate == ParseField(wBody.alternate)
                codes == airport_codes(departure, arrival, alternate)
            IN  /\ wDep' = departure
                /\ wArr' = arrival
                /\ wAlt' = alternate
                /\ IF ~Truthy(departure) \/ ~Truthy(arrival)
                   THEN /\ wPc' = "done"
                        /\ wResp' = ValidationResponse
                        /\ UNCHANGED <<wIds, wWeather, wRole>>
                   ELSE IF codes = <<>>
                   THEN /\ wPc' = "datis_metar"
                        /\ wRole' = 1
                        /\ wWeather' = colorize_weather(
                               PyStr("No valid airport codes provided", <<>>))
                        /\ UNCHANGED <<wIds, wResp>>
                   ELSE /\ wPc' = "wx_primary"
                        /\ wIds' = codes
                        /\ UNCHANGED <<wWeather, wRole, wResp>>
    /\ UNCHANGED <<wBody, wIdx, wGot, wDatis, wStatus, wReq, wTried>>
    /\ UNCHANGED <<normVars, guiVars, clsVars, wxVars, tglVars>>

\* fetch_weather returns data: get_weather lines 425-432
WeatherReturn(data) ==
    /\ wWeather' = colorize_weather(data)
    /\ wPc' = "datis_metar"
    /\ wRole' = 1
    /\ wIdx' = 0
    /\ wGot' = <<>>

\* fetch_weather lines 65-79: the primary endpoint
fetch_weather_primary ==
    /\ wPc = "wx_primary"
    /\ wReq' = Request("weather", "awc_taf", wIds, 0)
    /\ \E o \in TextOutcomes : \E e \in ErrorWords(o) :
          /\ wTried' = Append(wTried, o)
          /\ IF RaisesWithTimeout(o)
             THEN /\ wPc' = "wx_metar"
                  /\ wIdx' = 1
                  /\ wGot' = <<>>
                  /\ UNCHANGED <<wWeather, wRole>>
             ELSE IF o = "ok"
             THEN WeatherReturn(UpstreamText("METAR/TAF text", e))
             ELSE /\ wPc' = "wx_alt"
                  /\ UNCHANGED <<wWeather, wRole, wIdx, wGot>>
    /\ UNCHANGED <<wBody, wDep, wArr, wAlt, wIds, wDatis, wStatus, wResp>>
    /\ UNCHANGED <<normVars, guiVars, clsVars, wxVars, tglVars>>

\* fetch_weather trying the METAR fallback whenever the alternative endpoint
\* gave no accepted text
fetch_weather_alt_falls_back ==
    /\ wPc = "wx_alt"
    /\ wReq' = Request("weather", "awc_taf_php", wIds, 0)
    /\ \E o \in TextOutcomes : \E e \in ErrorWords(o) :
          /\ wTried' = Append(wTried, o)
          /\ IF o \in {"ok", "short"}
             THEN WeatherReturn(UpstreamText("METAR/TAF text", e))
             ELSE /\ wPc' = "wx_metar"
                  /\ wIdx' = 1
                  /\ wGot' = <<>>
                  /\ UNCHANGED <<wWeather, wRole>>
    /\ UNCHANGED <<wBody, wDep, wArr, wAlt, wIds, wDatis, wStatus, wResp>>
    /\ UNCHANGED <<normVars, guiVars, clsVars, wxVars, tglVars>>

\* fetch_weather lines 80-89 and 109: the alternative endpoint
fetch_weather_alt ==
    /\ wPc = "wx_alt"
    /\ wReq' = Request("weather", "awc_taf_php", wIds, 0)
    /\ \E o \in TextOutcomes : \E e \in ErrorWords(o) :
          /\ wTried' = Append(wTried, o)
          /\ IF RaisesWithTimeout(o)
             THEN /\ wPc' = "wx_metar"
                  /\ wIdx' = 1
                  /\ wGot' = <<>>
                  /\ UNCHANGED <<wWeather, wRole>>
             ELSE IF o \in {"ok", "short"}
             THEN WeatherReturn(UpstreamText("METAR/TAF text", e))
             ELSE WeatherReturn(PyStr("Weather data not available", <<>>))
    /\ UNCHANGED <<wBody, wDep, wArr, wAlt, wIds, wDatis, wStatus, wResp>>
    /\ UNCHANGED <<normVars, guiVars, clsVars, wxVars, tglVars>>

\* fetch_weather lines 91-109: one METAR request of the fallback loop
fetch_weather_metar ==
    /\ wPc = "wx_metar"
    /\ wReq' = Request("weather", "awc_metar_raw", <<wIds[wIdx]>>, 0)
    /\ \E o \in TextOutcomes : \E e \in ErrorWords(o) :
          IF RaisesWithTimeout(o)
          THEN WeatherReturn(PyStr("Error fetching weather data", <<>>))
          ELSE LET results ==
                      IF o \in {"ok", "short"}
                      THEN Append(wGot, [code |-> wIds[wIdx], error |-> e])
                      ELSE wGot
               IN  IF wIdx < Len(wIds)
                   THEN /\ wIdx' = wIdx + 1
                        /\ wGot' = results
                        /\ UNCHANGED <<wPc, wWeather, wRole>>
                   ELSE IF results # <<>>
                   THEN WeatherReturn(UpstreamText("METAR lines",
                            \E i \in 1..Len(results) : results[i].error))
                   ELSE WeatherReturn(PyStr("Weather data not available", <<>>))
    /\ UNCHANGED <<wBody, wDep, wArr, wAlt, wIds, wDatis, wStatus, wResp, wTried>>
    /\ UNCHANGED <<normVars, guiVars, clsVars, wxVars, tglVars>>

\* get_weather calling fetch_datis(alternate) whether or not alternate is set
DatisReturn_always_alternate(val) ==
    /\ wDatis' = Append(wDatis, val)
    /\ wIdx' = 0
    /\ IF wRole = 1 \/ wRole = 2
       THEN wRole' = wRole + 1 /\ wPc' = "datis_metar"
       ELSE wRole' = 1 /\ wPc' = "status_faa"

\* fetch_datis returns val: get_weather lines 432-434 go on to the next
\* airport, or to the status retrievals
DatisReturn(val) ==
    /\ wDatis' = Append(wDatis, val)
    /\ wIdx' = 0
    /\ IF wRole = 1 \/ (wRole = 2 /\ Truthy(wAlt))
       THEN wRole' = wRole + 1 /\ wPc' = "datis_metar"
       ELSE wRole' = 1 /\ wPc' = "status_faa"

\* fetch_datis lines 208-289: the METAR request of the simulated DATIS
fetch_datis_metar ==
    /\ wPc = "datis_metar"
    /\ wReq' = Request("datis", "awc_metar_json",
                       <<datis_icao_code(WebRoleCode(wRole))>>, wRole)
    /\ \E o \in ListOutcomes :
          IF o \in {"ok", "lacking"}
          THEN DatisReturn(PyStr("INFORMATION ... ADVISE CONTROLLER", <<>>))
          ELSE /\ wPc' = "datis_clowd"
               /\ wIdx' = 1
               /\ UNCHANGED <<wDatis, wRole>>
    /\ wTried' = <<>>
    /\ UNCHANGED <<wBody, wDep, wArr, wAlt, wIds, wGot, wWeather, wStatus, wResp>>
    /\ UNCHANGED <<normVars, guiVars, clsVars, wxVars, tglVars>>

\* fetch_datis lines 292-307: datis.clowd.io for codes_to_try[wIdx]
fetch_datis_clowd ==
    /\ wPc = "datis_clowd"
    /\ wReq' = Request("datis", "clowd_datis",
                       <<codes_to_try(WebRoleCode(wRole))[wIdx]>>, wRole)
    /\ \E o \in ListOutcomes :
          IF o = "ok"
          THEN DatisReturn(PyStr("atis text", <<>>))
          ELSE /\ wPc' = "datis_aviationapi"
               /\ UNCHANGED <<wDatis, wRole, wIdx>>
    /\ wTried' = <<>>
    /\ UNCHANGED <<wBody, wDep, wArr, wAlt, wIds, wGot, wWeather, wStatus, wResp>>
    /\ UNCHANGED <<normVars, guiVars, clsVars, wxVars, tglVars>>

\* fetch_datis lines 309-326: api.aviationapi.com for codes_to_try[wIdx]
fetch_datis_aviationapi ==
    /\ wPc = "datis_aviationapi"
    /\ wReq' = Request("datis", "aviationapi_datis",
                       <<codes_to_try(WebRoleCode(wRole))[wIdx]>>, wRole)
    /\ \E o \in ListOutcomes :
          IF o = "ok"
          THEN DatisReturn(PyStr("datis text", <<>>))
          ELSE IF wIdx < Len(codes_to_try(WebRoleCode(wRole)))
          THEN /\ wPc' = "datis_clowd"
               /\ wIdx' = wIdx + 1
               /\ UNCHANGED <<wDatis, wRole>>
          ELSE DatisReturn(
                   PyStr("DATIS information not available for this airport", <<>>))
    /\ wTried' = <<>>
    /\ UNCHANGED <<wBody, wDep, wArr, wAlt, wIds, wGot, wWeather, wStatus, wResp>>
    /\ UNCHANGED <<normVars, guiVars, clsVars, wxVars, tglVars>>

\* fetch_airport_status returns val: get_weather lines 447-465 go on to the
\* next airport, or answer
StatusReturn(val) ==
    /\ wStatus' = Append(wStatus, val)
    /\ IF wRole = 1 \/ (wRole = 2 /\ Truthy(wAlt))
       THEN /\ wRole' = wRole + 1
            /\ wPc' = "status_faa"
            /\ UNCHANGED wResp
       ELSE /\ wRole' = 0
            /\ wPc' = "done"
            /\ wResp' = JsonResponse(wWeather, web_output(wDatis),
                                     web_output(Append(wStatus, val)))

\* fetch_airport_status lines 328-371: the FAA request with the IATA code
fetch_airport_status_faa ==
    /\ wPc = "status_faa"
    /\ wReq' = Request("status", "faa_nasstatus",
                       <<convert_to_iata(WebRoleCode(wRole))>>, wRole)
    /\ \E o \in ObjectOutcomes :
          IF o = "ok"
          THEN StatusReturn(PyStr("Status: ...", <<>>))
          ELSE IF o = "bare"
          THEN StatusReturn(PyStr("No delay information available", <<>>))
          ELSE /\ wPc' = "status_metar"
               /\ UNCHANGED <<wStatus, wRole, wResp>>
    /\ wTried' = <<>>
    /\ UNCHANGED <<wBody, wDep, wArr, wAlt, wIds, wIdx, wGot, wWeather, wDatis>>
    /\ UNCHANGED <<normVars, guiVars, clsVars, wxVars, tglVars>>

\* fetch_airport_status lines 373-395: the METAR request with the ICAO code
fetch_airport_status_metar ==
    /\ wPc = "status_metar"
    /\ wReq' = Request("status", "awc_metar_json",
                       <<status_icao_code(WebRoleCode(wRole))>>, wRole)
    /\ \E o \in ListOutcomes :
          IF o \in {"ok", "lacking"}
          THEN StatusReturn(PyStr("Status: Normal (based on weather data)", <<>>))
          ELSE StatusReturn(
                   PyStr("Airport status information not available", <<>>))
    /\ wTried' = <<>>
    /\ UNCHANGED <<wBody, wDep, wArr, wAlt, wIds, wIdx, wGot, wWeather, wDatis>>
    /\ UNCHANGED <<normVars, guiVars, clsVars, wxVars, tglVars>>


-----------------------------------------------------------------------------
(* cachetools.func.ttl_cache(maxsize=128, ttl=60), as V4.py and wx_api.py   *)
(* decorate their retrievals with it.  A cache is the sequence of its       *)
(* entries [key, val, expires], least recently used first.                  *)

\* @ttl_cache(maxsize=128, ttl=60)
maxsize == 128
ttl == 60

\* the clock the caches read (time.monotonic) is counted in ticks, a hundred
\* to the second
TicksPerSecond == 100
Seconds(n) == n * TicksPerSecond

\* the durations of a request the model draws from, in ticks
RequestTicks == {0, 1, TicksPerSecond}
\* how long requests.get may block before it returns or raises: no time, a
\* tick, a second; a session is given the durations its requests may take
Latencies == (SUBSET RequestTicks) \ {{}}

\* requests.get(url, timeout=10) of the status retrievals (V4.py line 386,
\* wx_api.py line 86): when no answer comes, Timeout is raised once these
\* seconds are over
timeout == 10

\* TTLCache.expire: the entries whose time has not come
Expire(c, now) == SelectSeq(c, LAMBDA e : now < e.expires)

\* the position of key in the cache, 0 when it holds no entry for key
CacheIndex(c, key) ==
    IF \E i \in 1..Len(c) : c[i].key = key
    THEN CHOOSE i \in 1..Len(c) : c[i].key = key
    ELSE 0

\* cache[k] answers: an entry for key is held and has not expired
CacheHit(c, key, now) ==
    CacheIndex(c, key) # 0 /\ now < c[CacheIndex(c, key)].expires

CacheValue(c, key) == c[CacheIndex(c, key)].val

CacheWithout(c, key) == SelectSeq(c, LAMBDA e : e.key # key)

\* cache[k] was read: the entry becomes the most recently used
CacheTouch(c, key) ==
    IF CacheIndex(c, key) = 0 THEN c
    ELSE Append(CacheWithout(c, key), c[CacheIndex(c, key)])

\* a cache that holds one entry less than maxsize
CacheEvict_one_less(c) ==
    IF Len(c) < maxsize - 1 THEN c
    ELSE SubSeq(c, Len(c) - (maxsize - 1) + 2, Len(c))

\* popitem until there is room for one more entry: the least recently used
\* entries go first
CacheEvict(c) ==
    IF Len(c) < maxsize THEN c ELSE SubSeq(c, Len(c) - maxsize + 2, Len(c))

\* cache.setdefault(k, v) after a miss: expired entries are dropped, room is
\* made, the entry is stored with the time of the store
CacheStore(c, key, val, now) ==
    Append(CacheEvict(CacheWithout(Expire(c, now), key)),
           [key |-> key, val |-> val, expires |-> now + Seconds(ttl)])

-----------------------------------------------------------------------------
(* V4.py: the desktop handler WxBrief.fetchAllInfo and its retrievals *)

\* texts of the three input fields when the button is clicked
GuiDepartures == { <<>>, <<" ">>, <<"J","F","K">>, <<"P","H","N","L">> }
GuiArrivals == { <<>>, <<"J","F","K">> }
GuiAlternates == { <<>>, <<"P","H","X">> }

\* a QTextEdit nothing was written to
EmptyPane == PyStr("", <<>>)

\* what the retrieval called last came to
Returned(fn, val) == [fn |-> fn, raised |-> FALSE, val |-> val]
Raised(fn) == [fn |-> fn, raised |-> TRUE, val |-> PyNone]
NoCall == [fn |-> "none", raised |-> FALSE, val |-> PyNone]

\* the caches of the three decorated methods, empty
GuiRetrievals == {"fetchWeather", "fetchDatis", "fetchAirportStatus"}
NoCaches == [fn \in GuiRetrievals |-> <<>>]

GuiOff ==
    /\ gPc = "off"
    /\ gDep = <<>> /\ gArr = <<>> /\ gAlt = <<>>
    /\ gRole = 0
    /\ gWxOutcome = "none"
    /\ gWeatherOut = EmptyPane
    /\ gDatis = <<>> /\ gStatus = <<>>
    /\ gDatisOut = EmptyPane /\ gStatusOut = EmptyPane
    /\ gReq = NoRequest
    /\ gRet = NoCall
    /\ gCache = NoCaches
    /\ gNow = 0
    /\ gDelays = {0}
    /\ gRun = 0
    /\ gWeatherRun = 0

\* the window after initUI, with the fields filled in
GuiInit ==
    /\ gPc = "idle"
    /\ gDep \in GuiDepartures
    /\ gArr \in GuiArrivals
    /\ gAlt \in GuiAlternates
    /\ gRole = 0
    /\ gWxOutcome = "none"
    /\ gWeatherOut = EmptyPane
    /\ gDatis = <<>> /\ gStatus = <<>>
    /\ gDatisOut = EmptyPane /\ gStatusOut = EmptyPane
    /\ gReq = NoRequest
    /\ gRet = NoCall
    /\ gCache = NoCaches
    /\ gNow = 0
    /\ gDelays \in Latencies
    /\ gRun = 0
    /\ gWeatherRun = 0

GuiRoleCode(r) == CASE r = 1 -> gDep [] r = 2 -> gArr [] OTHER -> gAlt

\* @ttl_cache on the method fn: the wrapper, keyed by the call's arguments
Cached(fn, key) == CacheHit(gCache[fn], key, gNow)
CachedValue(fn, key) == CacheValue(gCache[fn], key)
CacheTouched(fn, key) == [gCache EXCEPT ![fn] = CacheTouch(@, key)]
CacheStored(fn, key, val, at) ==
    [gCache EXCEPT ![fn] = CacheStore(@, key, val, at)]

\* fetchWeather lines 196-205: the ids of the request
gui_airport_ids(airport1, airport2, airport3) ==
    <<gui_format_airport_code(airport1), gui_format_airport_code(airport2)>>
      \o (IF Truthy(airport3)
          THEN <<gui_format_airport_code(airport3)>>
          ELSE <<>>)

\* colorizeWeather lines 220-295: always a str, ending in the timestamp line
colorizeWeather(data) == PyStr("colorized:" \o data.kind, <<>>)

\* fetchAllInfo lines 157-167 / 172-182: the joined block
gui_output(results) ==
    PyStr("sections",
          [r \in 1..Len(results) |->
              Section(RoleName(r), GuiRoleCode(r), results[r])])

\* the button is clicked (or the auto-refresh timer fires): lines 137-143;
\* the locals of the run start afresh, the panes and the caches stay
fetchAllInfo ==
    /\ gPc = "idle"
    /\ gPc' = "weather"
    /\ gRun' = gRun + 1
    /\ gWxOutcome' = "none"
    /\ gDatis' = <<>>
    /\ gStatus' = <<>>
    /\ gReq' = NoRequest
    /\ gRet' = NoCall
    /\ UNCHANGED <<gDelays, gDep, gArr, gAlt, gRole, gWeatherOut, gDatisOut, gStatusOut,
                   gCache, gNow, gWeatherRun>>
    /\ UNCHANGED <<normVars, webVars, clsVars, wxVars, tglVars>>

\* fetchWeather returned val: fetchAllInfo lines 147-149
GuiWeatherReturn(val) ==
    /\ gRet' = Returned("fetchWeather", val)
    /\ gWeatherOut' = IF val # PyNone THEN colorizeWeather(val) ELSE gWeatherOut
    /\ gWeatherRun' = IF val # PyNone THEN gRun ELSE gWeatherRun
    /\ gPc' = "datis"
    /\ gRole' = 1

\* fetchAllInfo line 146 and fetchWeather lines 184-218
fetchWeather ==
    /\ gPc = "weather"
    /\ LET key == <<gDep, gArr, gAlt>> IN
       IF Cached("fetchWeather", key)
       THEN /\ GuiWeatherReturn(CachedValue("fetchWeather", key))
            /\ gCache' = CacheTouched("fetchWeather", key)
            /\ UNCHANGED <<gReq, gWxOutcome, gNow>>
       ELSE /\ gReq' = Request("weather", "awc_taf",
                               gui_airport_ids(gDep, gArr, gAlt), 0)
            /\ \E o \in TextOutcomes, d \in gDelays :
                  /\ gWxOutcome' = o
                  /\ gNow' = gNow + d
                  /\ IF o = "raise"
                     THEN /\ gPc' = "raised"
                          /\ gRet' = Raised("fetchWeather")
                          /\ UNCHANGED <<gWeatherOut, gWeatherRun, gRole, gCache>>
                     ELSE IF o = "noanswer"
                     THEN /\ gPc' = "hung"
                          /\ UNCHANGED <<gRet, gWeatherOut, gWeatherRun, gRole, gCache>>
                     ELSE LET val == IF o = "non200" THEN PyNone
                                     ELSE IF o = "empty" THEN PyStr("", <<>>)
                                     ELSE PyStr("METAR/TAF text", <<>>)
                          IN  /\ GuiWeatherReturn(val)
                              /\ gCache' = CacheStored("fetchWeather", key, val,
                                                        gNow + d)
    /\ UNCHANGED <<gDelays, gDep, gArr, gAlt, gDatis, gStatus, gDatisOut,
                   gStatusOut, gRun>>
    /\ UNCHANGED <<normVars, webVars, clsVars, wxVars, tglVars>>

\* fetchDatis returned val: fetchAllInfo lines 152-170
GuiDatisReturn(val) ==
    /\ gRet' = Returned("fetchDatis", val)
    /\ gDatis' = Append(gDatis, val)
    /\ IF gRole = 1 \/ (gRole = 2 /\ Truthy(gAlt))
       THEN /\ gRole' = gRole + 1
            /\ gPc' = "datis"
            /\ UNCHANGED gDatisOut
       ELSE /\ gRole' = 1
            /\ gPc' = "status"
            /\ gDatisOut' = gui_output(Append(gDatis, val))

\* fetchDatis lines 297-317, for the airport gRole
fetchDatis ==
    /\ gPc = "datis"
    /\ LET airport_code == GuiRoleCode(gRole)
           key == <<airport_code>>
       IN
       IF Cached("fetchDatis", key)
       THEN /\ GuiDatisReturn(CachedValue("fetchDatis", key))
            /\ gCache' = CacheTouched("fetchDatis", key)
            /\ UNCHANGED <<gReq, gNow>>
       ELSE IF ~Truthy(airport_code)
       THEN LET val == PyStr("No airport code provided", <<>>) IN
            /\ GuiDatisReturn(val)
            /\ gCache' = CacheStored("fetchDatis", key, val, gNow)
            /\ UNCHANGED <<gReq, gNow>>
       ELSE /\ gReq' = Request("datis", "clowd_datis",
                               <<gui_format_airport_code(airport_code)>>, gRole)
            /\ \E o \in ListOutcomes, d \in gDelays :
                  /\ gNow' = gNow + d
                  /\ IF o \in {"raise", "malformed", "scalar"}
                     THEN /\ gPc' = "raised"
                          /\ gRet' = Raised("fetchDatis")
                          /\ UNCHANGED <<gDatis, gDatisOut, gRole, gCache>>
                     ELSE IF o = "noanswer"
                     THEN /\ gPc' = "hung"
                          /\ UNCHANGED <<gRet, gDatis, gDatisOut, gRole, gCache>>
                     ELSE LET val ==
                                IF o = "ok" THEN PyStr("datis text", <<>>)
                                ELSE IF o = "non200"
                                THEN PyStr("No DATIS Available. Status code", <<>>)
                                ELSE PyStr("The 'datis' field is not present in the response.", <<>>)
                          IN  /\ GuiDatisReturn(val)
                              /\ gCache' = CacheStored("fetchDatis", key, val,
                                                        gNow + d)
    /\ UNCHANGED <<gDelays, gDep, gArr, gAlt, gWxOutcome, gWeatherOut, gStatus,
                   gStatusOut, gRun, gWeatherRun>>
    /\ UNCHANGED <<normVars, webVars, clsVars, wxVars, tglVars>>

\* fetchAirportStatus returned val: fetchAllInfo lines 170-182
GuiStatusReturn(val) ==
    /\ gRet' = Returned("fetchAirportStatus", val)
    /\ gStatus' = Append(gStatus, val)
    /\ IF gRole = 1 \/ (gRole = 2 /\ Truthy(gAlt))
       THEN /\ gRole' = gRole + 1
            /\ gPc' = "status"
            /\ UNCHANGED gStatusOut
       ELSE /\ gRole' = 0
            /\ gPc' = "done"
            /\ gStatusOut' = gui_output(Append(gStatus, val))

\* fetchAirportStatus lines 385-452: the value returned for each answer; a
\* body that is not JSON raises an error that is a ValueError and, with
\* requests 2.27 or later, a RequestException as well
StatusValues(o) ==
    CASE o \in {"ok", "bare", "lacking"} ->
            {PyStr("Airport: ... STATUS INFORMATION", <<>>)}
      [] o = "non200" -> {PyStr("Error: Could not retrieve status", <<>>)}
      [] o = "noanswer" -> {PyStr("Error: Request timed out. Please try again.", <<>>)}
      [] o = "raise" -> {PyStr("Error: Failed to fetch data", <<>>)}
      [] o = "malformed" -> {PyStr("Error: Failed to fetch data", <<>>),
                             PyStr("Error: Invalid data format", <<>>)}
      [] OTHER -> {PyStr("Unexpected error", <<>>)}

\* fetchAirportStatus lines 319-452, for the airport gRole
fetchAirportStatus ==
    /\ gPc = "status"
    /\ LET airport_code == GuiRoleCode(gRole)
           key == <<airport_code>>
       IN
       IF Cached("fetchAirportStatus", key)
       THEN /\ GuiStatusReturn(CachedValue("fetchAirportStatus", key))
            /\ gCache' = CacheTouched("fetchAirportStatus", key)
            /\ UNCHANGED <<gReq, gNow>>
       ELSE IF ~Truthy(airport_code)
       THEN LET val == PyStr("Error: Airport code is required", <<>>) IN
            /\ GuiStatusReturn(val)
            /\ gCache' = CacheStored("fetchAirportStatus", key, val, gNow)
            /\ UNCHANGED <<gReq, gNow>>
       ELSE /\ gReq' = Request("status", "faa_asws",
                               <<faa_code(airport_code)>>, gRole)
            /\ \E o \in ObjectOutcomes :
                  \E val \in StatusValues(o),
                     d \in IF o = "noanswer" THEN {Seconds(timeout)}
                           ELSE gDelays :
                     /\ gNow' = gNow + d
                     /\ GuiStatusReturn(val)
                     /\ gCache' = CacheStored("fetchAirportStatus", key, val,
                                               gNow + d)
    /\ UNCHANGED <<gDelays, gDep, gArr, gAlt, gWxOutcome, gWeatherOut, gDatis,
                   gDatisOut, gRun, gWeatherRun>>
    /\ UNCHANGED <<normVars, webVars, clsVars, wxVars, tglVars>>

-----------------------------------------------------------------------------
(* The flight-category classifier and the grouping of weather lines:        *)
(* WxBrief.colorizeWeather (V4.py), colorize_weather (wx_api.py) and         *)
(* colorize_weather (app.py).  A text is the sequence of its lines, a line   *)
(* a sequence of characters; a colorizer's result is the sequence of the     *)
(* items it joins with '<br>'.                                               *)

DigitSeq == <<"0", "1", "2", "3", "4", "5", "6", "7", "8", "9">>

\* the decimal digits of the other scripts, which \d of re matches and int()
\* converts as it does 0-9: the set at v + 1 holds the digits of value v
DigitsBeyondAscii ==
    <<{"U+0660", "U+06F0", "U+07C0", "U+0966", "U+09E6", "U+0A66", "U+0AE6",
       "U+0B66", "U+0BE6", "U+0C66", "U+0CE6", "U+0D66", "U+0DE6", "U+0E50",
       "U+0ED0", "U+0F20", "U+1040", "U+1090", "U+17E0", "U+1810", "U+1946",
       "U+19D0", "U+1A80", "U+1A90", "U+1B50", "U+1BB0", "U+1C40", "U+1C50",
       "U+A620", "U+A8D0", "U+A900", "U+A9D0", "U+A9F0", "U+AA50", "U+ABF0",
       "U+FF10", "U+104A0", "U+10D30", "U+11066", "U+110F0", "U+11136",
       "U+111D0", "U+112F0", "U+11450", "U+114D0", "U+11650", "U+116C0",
       "U+11730", "U+118E0", "U+11950", "U+11C50", "U+11D50", "U+11DA0",
       "U+16A60", "U+16AC0", "U+16B50", "U+1D7CE", "U+1D7D8", "U+1D7E2",
       "U+1D7EC", "U+1D7F6", "U+1E140", "U+1E2F0", "U+1E950", "U+1FBF0"},
      {"U+0661", "U+06F1", "U+07C1", "U+0967", "U+09E7", "U+0A67", "U+0AE7",
       "U+0B67", "U+0BE7", "U+0C67", "U+0CE7", "U+0D67", "U+0DE7", "U+0E51",
       "U+0ED1", "U+0F21", "U+1041", "U+1091", "U+17E1", "U+1811", "U+1947",
       "U+19D1", "U+1A81", "U+1A91", "U+1B51", "U+1BB1", "U+1C41", "U+1C51",
       "U+A621", "U+A8D1", "U+A901", "U+A9D1", "U+A9F1", "U+AA51", "U+ABF1",
       "U+FF11", "U+104A1", "U+10D31", "U+11067", "U+110F1", "U+11137",
       "U+111D1", "U+112F1", "U+11451", "U+114D1", "U+11651", "U+116C1",
       "U+11731", "U+118E1", "U+11951", "U+11C51", "U+11D51", "U+11DA1",
       "U+16A61", "U+16AC1", "U+16B51", "U+1D7CF", "U+1D7D9", "U+1D7E3",
       "U+1D7ED", "U+1D7F7", "U+1E141", "U+1E2F1", "U+1E951", "U+1FBF1"},
      {"U+0662", "U+06F2", "U+07C2", "U+0968", "U+09E8", "U+0A68", "U+0AE8",
       "U+0B68", "U+0BE8", "U+0C68", "U+0CE8", "U+0D68", "U+0DE8", "U+0E52",
       "U+0ED2", "U+0F22", "U+1042", "U+1092", "U+17E2", "U+1812", "U+1948",
       "U+19D2", "U+1A82", "U+1A92", "U+1B52", "U+1BB2", "U+1C42", "U+1C52",
       "U+A622", "U+A8D2", "U+A902", "U+A9D2", "U+A9F2", "U+AA52", "U+ABF2",
       "U+FF12", "U+104A2", "U+10D32", "U+11068", "U+110F2", "U+11138",
       "U+111D2", "U+112F2", "U+11452", "U+114D2", "U+11652", "U+116C2",
       "U+11732", "U+118E2", "U+11952", "U+11C52", "U+11D52", "U+11DA2",
       "U+16A62", "U+16AC2", "U+16B52", "U+1D7D0", "U+1D7DA", "U+1D7E4",
       "U+1D7EE", "U+1D7F8", "U+1E142", "U+1E2F2", "U+1E952", "U+1FBF2"},
      {"U+0663", "U+06F3", "U+07C3", "U+0969", "U+09E9", "U+0A69", "U+0AE9",
       "U+0B69", "U+0BE9", "U+0C69", "U+0CE9", "U+0D69", "U+0DE9", "U+0E53",
       "U+0ED3", "U+0F23", "U+1043", "U+1093", "U+17E3", "U+1813", "U+1949",
       "U+19D3", "U+1A83", "U+1A93", "U+1B53", "U+1BB3", "U+1C43", "U+1C53",
       "U+A623", "U+A8D3", "U+A903", "U+A9D3", "U+A9F3", "U+AA53", "U+ABF3",
       "U+FF13", "U+104A3", "U+10D33", "U+11069", "U+110F3", "U+11139",
       "U+111D3", "U+112F3", "U+11453", "U+114D3", "U+11653", "U+116C3",
       "U+11733", "U+118E3", "U+11953", "U+11C53", "U+11D53", "U+11DA3",
       "U+16A63", "U+16AC3", "U+16B53", "U+1D7D1", "U+1D7DB", "U+1D7E5",
       "U+1D7EF", "U+1D7F9", "U+1E143", "U+1E2F3", "U+1E953", "U+1FBF3"},
      {"U+0664", "U+06F4", "U+07C4", "U+096A", "U+09EA", "U+0A6A", "U+0AEA",
       "U+0B6A", "U+0BEA", "U+0C6A", "U+0CEA", "U+0D6A", "U+0DEA", "U+0E54",
       "U+0ED4", "U+0F24", "U+1044", "U+1094", "U+17E4", "U+1814", "U+194A",
       "U+19D4", "U+1A84", "U+1A94", "U+1B54", "U+1BB4", "U+1C44", "U+1C54",
       "U+A624", "U+A8D4", "U+A904", "U+A9D4", "U+A9F4", "U+AA54", "U+ABF4",
       "U+FF14", "U+104A4", "U+10D34", "U+1106A", "U+110F4", "U+1113A",
       "U+111D4", "U+112F4", "U+11454", "U+114D4", "U+11654", "U+116C4",
       "U+11734", "U+118E4", "U+11954", "U+11C54", "U+11D54", "U+11DA4",
       "U+16A64", "U+16AC4", "U+16B54", "U+1D7D2", "U+1D7DC", "U+1D7E6",
       "U+1D7F0", "U+1D7FA", "U+1E144", "U+1E2F4", "U+1E954", "U+1FBF4"},
      {"U+0665", "U+06F5", "U+07C5", "U+096B", "U+09EB", "U+0A6B", "U+0AEB",
       "U+0B6B", "U+0BEB", "U+0C6B", "U+0CEB", "U+0D6B", "U+0DEB", "U+0E55",
       "U+0ED5", "U+0F25", "U+1045", "U+1095", "U+17E5", "U+1815", "U+194B",
       "U+19D5", "U+1A85", "U+1A95", "U+1B55", "U+1BB5", "U+1C45", "U+1C55",
       "U+A625", "U+A8D5", "U+A905", "U+A9D5", "U+A9F5", "U+AA55", "U+ABF5",
       "U+FF15", "U+104A5", "U+10D35", "U+1106B", "U+110F5", "U+1113B",
       "U+111D5", "U+112F5", "U+11455", "U+114D5", "U+11655", "U+116C5",
       "U+11735", "U+118E5", "U+11955", "U+11C55", "U+11D55", "U+11DA5",
       "U+16A65", "U+16AC5", "U+16B55", "U+1D7D3", "U+1D7DD", "U+1D7E7",
       "U+1D7F1", "U+1D7FB", "U+1E145", "U+1E2F5", "U+1E955", "U+1FBF5"},
      {"U+0666", "U+06F6", "U+07C6", "U+096C", "U+09EC", "U+0A6C", "U+0AEC",
       "U+0B6C", "U+0BEC", "U+0C6C", "U+0CEC", "U+0D6C", "U+0DEC", "U+0E56",
       "U+0ED6", "U+0F26", "U+1046", "U+1096", "U+17E6", "U+1816", "U+194C",
       "U+19D6", "U+1A86", "U+1A96", "U+1B56", "U+1BB6", "U+1C46", "U+1C56",
       "U+A626", "U+A8D6", "U+A906", "U+A9D6", "U+A9F6", "U+AA56", "U+ABF6",
       "U+FF16", "U+104A6", "U+10D36", "U+1106C", "U+110F6", "U+1113C",
       "U+111D6", "U+112F6", "U+11456", "U+114D6", "U+11656", "U+116C6",
       "U+11736", "U+118E6", "U+11956", "U+11C56", "U+11D56", "U+11DA6",
       "U+16A66", "U+16AC6", "U+16B56", "U+1D7D4", "U+1D7DE", "U+1D7E8",
       "U+1D7F2", "U+1D7FC", "U+1E146", "U+1E2F6", "U+1E956", "U+1FBF6"},
      {"U+0667", "U+06F7", "U+07C7", "U+096D", "U+09ED", "U+0A6D", "U+0AED",
       "U+0B6D", "U+0BED", "U+0C6D", "U+0CED", "U+0D6D", "U+0DED", "U+0E57",
       "U+0ED7", "U+0F27", "U+1047", "U+1097", "U+17E7", "U+1817", "U+194D",
       "U+19D7", "U+1A87", "U+1A97", "U+1B57", "U+1BB7", "U+1C47", "U+1C57",
       "U+A627", "U+A8D7", "U+A907", "U+A9D7", "U+A9F7", "U+AA57", "U+ABF7",
       "U+FF17", "U+104A7", "U+10D37", "U+1106D", "U+110F7", "U+1113D",
       "U+111D7", "U+112F7", "U+11457", "U+114D7", "U+11657", "U+116C7",
       "U+11737", "U+118E7", "U+11957", "U+11C57", "U+11D57", "U+11DA7",
       "U+16A67", "U+16AC7", "U+16B57", "U+1D7D5", "U+1D7DF", "U+1D7E9",
       "U+1D7F3", "U+1D7FD", "U+1E147", "U+1E2F7", "U+1E957", "U+1FBF7"},
      {"U+0668", "U+06F8", "U+07C8", "U+096E", "U+09EE", "U+0A6E", "U+0AEE",
       "U+0B6E", "U+0BEE", "U+0C6E", "U+0CEE", "U+0D6E", "U+0DEE", "U+0E58",
       "U+0ED8", "U+0F28", "U+1048", "U+1098", "U+17E8", "U+1818", "U+194E",
       "U+19D8", "U+1A88", "U+1A98", "U+1B58", "U+1BB8", "U+1C48", "U+1C58",
       "U+A628", "U+A8D8", "U+A908", "U+A9D8", "U+A9F8", "U+AA58", "U+ABF8",
       "U+FF18", "U+104A8", "U+10D38", "U+1106E", "U+110F8", "U+1113E",
       "U+111D8", "U+112F8", "U+11458", "U+114D8", "U+11658", "U+116C8",
       "U+11738", "U+118E8", "U+11958", "U+11C58", "U+11D58", "U+11DA8",
       "U+16A68", "U+16AC8", "U+16B58", "U+1D7D6", "U+1D7E0", "U+1D7EA",
       "U+1D7F4", "U+1D7FE", "U+1E148", "U+1E2F8", "U+1E958", "U+1FBF8"},
      {"U+0669", "U+06F9", "U+07C9", "U+096F", "U+09EF", "U+0A6F", "U+0AEF",
       "U+0B6F", "U+0BEF", "U+0C6F", "U+0CEF", "U+0D6F", "U+0DEF", "U+0E59",
       "U+0ED9", "U+0F29", "U+1049", "U+1099", "U+17E9", "U+1819", "U+194F",
       "U+19D9", "U+1A89", "U+1A99", "U+1B59", "U+1BB9", "U+1C49", "U+1C59",
       "U+A629", "U+A8D9", "U+A909", "U+A9D9", "U+A9F9", "U+AA59", "U+ABF9",
       "U+FF19", "U+104A9", "U+10D39", "U+1106F", "U+110F9", "U+1113F",
       "U+111D9", "U+112F9", "U+11459", "U+114D9", "U+11659", "U+116C9",
       "U+11739", "U+118E9", "U+11959", "U+11C59", "U+11D59", "U+11DA9",
       "U+16A69", "U+16AC9", "U+16B59", "U+1D7D7", "U+1D7E1", "U+1D7EB",
       "U+1D7F5", "U+1D7FF", "U+1E149", "U+1E2F9", "U+1E959", "U+1FBF9"}>>

Digits ==
    {"0", "1", "2", "3", "4", "5", "6", "7", "8", "9"}
        \cup UNION {DigitsBeyondAscii[v] : v \in 1..10}

\* int(c) of a digit character
DigitValue(c) ==
    IF \E i \in 1..Len(DigitSeq) : DigitSeq[i] = c
    THEN (CHOOSE i \in 1..Len(DigitSeq) : DigitSeq[i] = c) - 1
    ELSE (CHOOSE v \in 1..10 : c \in DigitsBeyondAscii[v]) - 1

\* the text p stands in line at position i (1-based)
IsAt(line, i, p) ==
    i + Len(p) - 1 <= Len(line) /\ SubSeq(line, i, i + Len(p) - 1) = p

\* p in line
Contains(line, p) == \E i \in 1..Len(line) : IsAt(line, i, p)

DigitAt(line, i) == i <= Len(line) /\ line[i] \in Digits

\* an optional number: Python's None, or a value
NoNumber == <<>>
Number(v) == <<v>>

\* the minimum of a non-empty set of numbers
Min(S) == CHOOSE m \in S : \A x \in S : m <= x

SM == <<"S", "M">>
P6SM == <<"P", "6", "S", "M">>
OVC == <<"O", "V", "C">>
BKN == <<"B", "K", "N">>
VV == <<"V", "V">>

\* ['SKC', 'CLR', 'SCT', 'FEW', 'P6SM']
vfr_codes ==
    { <<"S", "K", "C">>,
      <<"C", "L", "R">>,
      <<"S", "C", "T">>,
      <<"F", "E", "W">>,
      <<"P", "6", "S", "M">> }

\* the colors dict
colors(category) ==
    CASE category = "LIFR" -> "magenta"
      [] category = "IFR" -> "red"
      [] category = "MVFR" -> "blue"
      [] category = "VFR" -> "green"
      [] category = "UNKNOWN" -> "black"
      [] OTHER -> "black"

\* re.search(r'(\d{1,2})SM|P6SM', line): the positions where it matches,
\* and the number group(1) holds for a match at i (two digits are taken
\* before one)
VisMatchAt(line, i) ==
    \/ DigitAt(line, i) /\ DigitAt(line, i + 1) /\ IsAt(line, i + 2, SM)
    \/ DigitAt(line, i) /\ IsAt(line, i + 1, SM)
    \/ IsAt(line, i, P6SM)
VisGroup(line, i) ==
    IF DigitAt(line, i) /\ DigitAt(line, i + 1) /\ IsAt(line, i + 2, SM)
    THEN 10 * DigitValue(line[i]) + DigitValue(line[i + 1])
    ELSE DigitValue(line[i])

\* re.findall(r'(OVC|BKN|VV)(\d{3})', line): the positions of the matches
\* (two matches never overlap: a match holds a letter O, B or V only at its
\* start) and int(h) * 100 of the match at i
CeilingMatchAt(line, i) ==
    \/ (IsAt(line, i, OVC) \/ IsAt(line, i, BKN))
          /\ DigitAt(line, i + 3) /\ DigitAt(line, i + 4) /\ DigitAt(line, i + 5)
    \/ IsAt(line, i, VV)
          /\ DigitAt(line, i + 2) /\ DigitAt(line, i + 3) /\ DigitAt(line, i + 4)
CeilingGroup(line, i) ==
    LET d == IF IsAt(line, i, VV) THEN i + 2 ELSE i + 3
    IN  (100 * DigitValue(line[d]) + 10 * DigitValue(line[d + 1])
           + DigitValue(line[d + 2])) * 100

\* V4.py colorizeWeather lines 253-258: visibility, in tenths of a statute
\* mile (6.1 is 61)
visibility(line) ==
    LET matches == {i \in 1..Len(line) : VisMatchAt(line, i)} IN
    IF matches = {} THEN NoNumber
    ELSE IF Contains(line, P6SM) THEN Number(61)
    ELSE Number(10 * VisGroup(line, Min(matches)))

\* V4.py colorizeWeather lines 260-262: ceiling, in feet
ceiling(line) ==
    LET matches == {i \in 1..Len(line) : CeilingMatchAt(line, i)} IN
    IF matches = {} THEN NoNumber
    ELSE Number(Min({CeilingGroup(line, i) : i \in matches}))

\* V4.py colorizeWeather with the IFR test put before the LIFR test
category_ifr_first(line) ==
    IF \E code \in vfr_codes : Contains(line, code) THEN "VFR"
    ELSE IF ceiling(line) # NoNumber /\ visibility(line) # NoNumber
    THEN LET c == ceiling(line)[1]
             v == visibility(line)[1]
         IN  IF (500 <= c /\ c < 1000) \/ (10 <= v /\ v < 30) THEN "IFR"
             ELSE IF c < 500 \/ v < 10 THEN "LIFR"
             ELSE IF (1000 <= c /\ c <= 3000) \/ (30 <= v /\ v <= 50) THEN "MVFR"
             ELSE IF c > 3000 /\ v > 50 THEN "VFR"
             ELSE "UNKNOWN"
    ELSE "UNKNOWN"

\* V4.py colorizeWeather that looks at the layers before the VFR codes
category_layers_first(line) ==
    IF ceiling(line) # NoNumber /\ visibility(line) # NoNumber
    THEN LET c == ceiling(line)[1]
             v == visibility(line)[1]
         IN  IF c < 500 \/ v < 10 THEN "LIFR"
             ELSE IF (500 <= c /\ c < 1000) \/ (10 <= v /\ v < 30) THEN "IFR"
             ELSE IF (1000 <= c /\ c <= 3000) \/ (30 <= v /\ v <= 50) THEN "MVFR"
             ELSE IF c > 3000 /\ v > 50 THEN "VFR"
             ELSE "UNKNOWN"
    ELSE IF \E code \in vfr_codes : Contains(line, code) THEN "VFR"
    ELSE "UNKNOWN"

\* V4.py colorizeWeather whose VFR test is ceiling >= 3000 (MVFR up to 2900)
category_vfr_from_3000(line) ==
    IF \E code \in vfr_codes : Contains(line, code) THEN "VFR"
    ELSE IF ceiling(line) # NoNumber /\ visibility(line) # NoNumber
    THEN LET c == ceiling(line)[1]
             v == visibility(line)[1]
         IN  IF c < 500 \/ v < 10 THEN "LIFR"
             ELSE IF (500 <= c /\ c < 1000) \/ (10 <= v /\ v < 30) THEN "IFR"
             ELSE IF (1000 <= c /\ c < 3000) \/ (30 <= v /\ v < 50) THEN "MVFR"
             ELSE IF c > 3000 /\ v > 50 THEN "VFR"
             ELSE "UNKNOWN"
    ELSE "UNKNOWN"

\* V4.py colorizeWeather lines 247-276: the category of one line
category(line) ==
    IF \E code \in vfr_codes : Contains(line, code) THEN "VFR"
    ELSE IF ceiling(line) # NoNumber /\ visibility(line) # NoNumber
    THEN LET c == ceiling(line)[1]
             v == visibility(line)[1]
         IN  IF c < 500 \/ v < 10 THEN "LIFR"
             ELSE IF (500 <= c /\ c < 1000) \/ (10 <= v /\ v < 30) THEN "IFR"
             ELSE IF (1000 <= c /\ c <= 3000) \/ (30 <= v /\ v <= 50) THEN "MVFR"
             ELSE IF c > 3000 /\ v > 50 THEN "VFR"
             ELSE "UNKNOWN"
    ELSE "UNKNOWN"

\* wx_api.py colorize_weather lines 33-39
wx_visibility(line) ==
    LET matches == {i \in 1..Len(line) : VisMatchAt(line, i)} IN
    IF matches = {} THEN NoNumber
    ELSE IF Contains(line, P6SM) THEN Number(61)
    ELSE Number(10 * VisGroup(line, Min(matches)))

wx_ceiling(line) ==
    LET matches == {i \in 1..Len(line) : CeilingMatchAt(line, i)} IN
    IF matches = {} THEN NoNumber
    ELSE Number(Min({CeilingGroup(line, i) : i \in matches}))

\* wx_api.py colorize_weather lines 27-53: the category of one line
wx_category(line) ==
    IF \E code \in vfr_codes : Contains(line, code) THEN "VFR"
    ELSE IF wx_ceiling(line) # NoNumber /\ wx_visibility(line) # NoNumber
    THEN LET c == wx_ceiling(line)[1]
             v == wx_visibility(line)[1]
         IN  IF c < 500 \/ v < 10 THEN "LIFR"
             ELSE IF (500 <= c /\ c < 1000) \/ (10 <= v /\ v < 30) THEN "IFR"
             ELSE IF (1000 <= c /\ c <= 3000) \/ (30 <= v /\ v <= 50) THEN "MVFR"
             ELSE IF c > 3000 /\ v > 50 THEN "VFR"
             ELSE "UNKNOWN"
    ELSE "UNKNOWN"

\* the items a colorizer appends to colored_lines
ColoredLine(color, line) == [kind |-> "line", color |-> color, text |-> line]
AirportHeader(code) == [kind |-> "header", color |-> "", text |-> code]
HorizontalRule == [kind |-> "rule", color |-> "", text |-> <<>>]
LineBreak == [kind |-> "break", color |-> "", text |-> <<>>]
TimeStamp == [kind |-> "time", color |-> "", text |-> <<>>]
ErrorSpan(what) == [kind |-> what, color |-> "red", text |-> <<>>]

\* line.split()[0] of a line that does not start with whitespace
RECURSIVE FirstWord(_)
FirstWord(line) ==
    IF line = <<>> \/ Head(line) \in Whitespace THEN <<>>
    ELSE <<Head(line)>> \o FirstWord(Tail(line))

\* V4.py colorizeWeather line 233
StartsNewAirport(line) ==
    startswith(line, <<"K">>) \/ startswith(line, PH) \/ startswith(line, TJ)

\* V4.py colorizeWeather lines 227-288: the loop from line i on, with
\* current_airport (None: <<>>) and colored_lines as they stand
RECURSIVE colorizeWeatherLoop(_, _, _, _)
colorizeWeatherLoop(lines, i, current_airport, colored_lines) ==
    IF i > Len(lines) THEN colored_lines
    ELSE LET line == lines[i] IN
         IF strip(line) = <<>>
         THEN colorizeWeatherLoop(lines, i + 1, current_airport, colored_lines)
         ELSE LET airport_code == FirstWord(line)
                  heading ==
                      IF ~StartsNewAirport(line) THEN <<>>
                      ELSE IF current_airport # <<>> /\ current_airport # airport_code
                      THEN <<HorizontalRule, AirportHeader(airport_code)>>
                      ELSE IF current_airport = <<>>
                      THEN <<AirportHeader(airport_code)>>
                      ELSE <<>>
                  airport == IF StartsNewAirport(line) THEN airport_code
                             ELSE current_airport
              IN  colorizeWeatherLoop(lines, i + 1, airport,
                      colored_lines \o heading
                        \o <<ColoredLine(colors(category(line)), line)>>)

\* V4.py colorizeWeather lines 220-295
colorizeWeatherItems(lines) ==
    Append(colorizeWeatherLoop(lines, 1, <<>>, <<>>), TimeStamp)

\* wx_api.py colorize_weather lines 22-65
wx_colorize_weather(lines) ==
    [i \in 1..Len(lines) |-> ColoredLine(colors(wx_category(lines[i])), lines[i])]

\* app.py colorize_weather line 132: re.match(r'^[A-Z]{3,4}\s', line)
airport_match(line) ==
    \/ Len(line) >= 4 /\ (\A i \in 1..3 : line[i] \in UpperLetters)
          /\ line[4] \in Whitespace
    \/ Len(line) >= 5 /\ (\A i \in 1..4 : line[i] \in UpperLetters)
          /\ line[5] \in Whitespace

\* app.py colorize_weather lines 140-149: the span a line is put in
app_line_color(line) ==
    IF Contains(line, <<"M", "E", "T", "A", "R">>) THEN "blue bold"
    ELSE IF Contains(line, <<"T", "A", "F">>) THEN "green bold"
    ELSE IF Contains(line, OVC) \/ Contains(line, BKN) THEN "orange"
    ELSE IF \E condition \in { <<"T", "S">>, <<"C", "B">>, <<"+">>, <<"F", "G">>, <<"T", "S", "R", "A">> } :
               Contains(line, condition)
    THEN "red"
    ELSE ""

\* app.py colorize_weather lines 126-149: the loop from line i on
RECURSIVE app_colorize_loop(_, _, _, _)
app_colorize_loop(lines, i, current_airport, colored_lines) ==
    IF i > Len(lines) THEN colored_lines
    ELSE LET line == lines[i] IN
         IF strip(line) = <<>>
         THEN app_colorize_loop(lines, i + 1, current_airport, colored_lines)
         ELSE LET token == strip(SliceTo(line, 4))
                  spacing ==
                      IF airport_match(line) /\ current_airport # <<>>
                           /\ current_airport # token
                      THEN <<LineBreak>>
                      ELSE <<>>
                  airport == IF airport_match(line) THEN token
                             ELSE current_airport
              IN  app_colorize_loop(lines, i + 1, airport,
                      colored_lines \o spacing
                        \o <<ColoredLine(app_line_color(line), line)>>)

\* app.py colorize_weather lines 111-155
app_colorize_weather(lines) ==
    IF lines = << <<>> >> THEN <<ErrorSpan("No weather data available")>>
    ELSE IF startswith(lines[1], <<"W", "e", "a", "t", "h", "e", "r", " ", "d", "a", "t", "a", " ", "n", "o", "t", " ", "a", "v", "a", "i", "l", "a", "b", "l", "e">>)
              \/ \E i \in 1..Len(lines) : Contains(lines[i], <<"E", "r", "r", "o", "r">>)
    THEN <<ErrorSpan("data")>>
    ELSE IF app_colorize_loop(lines, 1, <<>>, <<>>) = <<>>
    THEN <<ErrorSpan("Unable to process weather data")>>
    ELSE app_colorize_loop(lines, 1, <<>>, <<>>)

-----------------------------------------------------------------------------
(* Inputs of the colorizers *)

\* most lines of an enumerated many-line text
MaxLines == 3

\* the parts one report line is put together from: station and time, a
\* visibility group, two sky-condition groups
ReportStart == <<"K", "J", "F", "K", " ", "2", "9", "1", "6", "5", "1", "Z">>
VisibilityGroups ==
    { <<>>,
      <<"0", "S", "M">>,
      <<"1", "S", "M">>,
      <<"2", "S", "M">>,
      <<"3", "S", "M">>,
      <<"5", "S", "M">>,
      <<"6", "S", "M">>,
      <<"1", "0", "S", "M">>,
      <<"1", "/", "2", "S", "M">>,
      <<"P", "6", "S", "M">>,
      <<"S", "M">> }
SkyGroups ==
    { <<>>,
      <<"S", "K", "C">>,
      <<"C", "L", "R">>,
      <<"F", "E", "W", "2", "5", "0">>,
      <<"S", "C", "T", "0", "3", "0">>,
      <<"O", "V", "C", "0", "0", "4">>,
      <<"O", "V", "C", "0", "0", "5">>,
      <<"O", "V", "C", "0", "0", "8">>,
      <<"O", "V", "C", "0", "1", "0">>,
      <<"B", "K", "N", "0", "3", "0">>,
      <<"O", "V", "C", "0", "3", "1">>,
      <<"V", "V", "0", "0", "2">>,
      <<"O", "V", "C", "0", "5">> }

\* ' '.join of the parts that are not empty
JoinParts(a, b) == IF b = <<>> THEN a ELSE a \o <<" ">> \o b

ReportLines ==
    { JoinParts(JoinParts(JoinParts(ReportStart, v), s1), s2) :
          v \in VisibilityGroups, s1 \in SkyGroups, s2 \in SkyGroups }
      \cup { JoinParts(JoinParts(s1, v), s2) :
          v \in VisibilityGroups, s1 \in SkyGroups, s2 \in {<<>>} }

\* lines of the texts of several airports: report lines of four airports,
\* an empty line, a blank line, a continuation line
GroupLines ==
    { <<"K", "J", "F", "K", " ", "2", "S", "M", " ", "O", "V", "C", "0", "0", "8">>,
      <<"K", "J", "F", "K", " ", "1", "0", "S", "M", " ", "B", "K", "N", "2", "5", "0">>,
      <<"K", "L", "A", "X", " ", "5", "S", "M", " ", "O", "V", "C", "0", "3", "1">>,
      <<"E", "G", "L", "L", " ", "3", "S", "M", " ", "B", "K", "N", "0", "3", "0">>,
      <<"P", "H", "N", "L", " ", "1", "S", "M", " ", "V", "V", "0", "0", "2">>,
      <<>>,
      <<" ">>,
      <<" ", " ", "B", "K", "N", "0", "2", "0", " ", "6", "S", "M">> }

RECURSIVE TextsOfLen(_)
TextsOfLen(n) ==
    IF n = 0 THEN {<<>>}
    ELSE {<<l>> \o t : l \in GroupLines, t \in TextsOfLen(n - 1)}

InputTexts ==
    {<<l>> : l \in ReportLines} \cup UNION {TextsOfLen(n) : n \in 1..MaxLines}

-----------------------------------------------------------------------------
(* Specification of the colorizers: each action applies one function *)

ClsInit ==
    /\ cData \in InputTexts
    /\ cStage = 0
    /\ cGui = <<>> /\ cWx = <<>> /\ cWeb = <<>>

\* V4.py colorizeWeather(data)
ApplyColorizeGui ==
    /\ cStage = 0
    /\ cData # <<>>
    /\ cGui' = colorizeWeatherItems(cData)
    /\ cStage' = 1
    /\ UNCHANGED <<cData, cWx, cWeb>>
    /\ UNCHANGED <<normVars, webVars, guiVars, wxVars, tglVars>>

\* wx_api.py colorize_weather(data)
ApplyColorizeWx ==
    /\ cStage = 1
    /\ cWx' = wx_colorize_weather(cData)
    /\ cStage' = 2
    /\ UNCHANGED <<cData, cGui, cWeb>>
    /\ UNCHANGED <<normVars, webVars, guiVars, wxVars, tglVars>>

\* app.py colorize_weather(data)
ApplyColorizeWeb ==
    /\ cStage = 2
    /\ cWeb' = app_colorize_weather(cData)
    /\ cStage' = 3
    /\ UNCHANGED <<cData, cGui, cWx>>
    /\ UNCHANGED <<normVars, webVars, guiVars, wxVars, tglVars>>

ClsNext ==
    \/ ApplyColorizeGui
    \/ ApplyColorizeWx
    \/ ApplyColorizeWeb

-----------------------------------------------------------------------------
(* wx_api.py: the three retrievals under @ttl_cache(maxsize=128, ttl=60),    *)
(* called by a program that imports the module.  One run exercises one of   *)
(* the functions, so one cache.                                              *)

\* most calls of one run
MaxCalls == 3

WxRetrievals == {"fetch_weather", "fetch_datis", "fetch_airport_status"}

\* the airport codes the caller passes: one airport in two spellings
WxCodes == { <<"j", "f", "k">>, <<"J", "F", "K">> }

\* the codes of other airports: ZAA, ZAB, ...
AlphabetSeq ==
    <<"A", "B", "C", "D", "E", "F", "G", "H", "I", "J", "K", "L", "M",
      "N", "O", "P", "Q", "R", "S", "T", "U", "V", "W", "X", "Y", "Z">>
OtherCode(i) ==
    <<"Z", AlphabetSeq[((i - 1) \div Len(AlphabetSeq)) + 1],
           AlphabetSeq[((i - 1) % Len(AlphabetSeq)) + 1]>>

\* how many other airports the caller asks for in a row
SweepSizes == {maxsize - 1, maxsize}

\* the instants at which the caller calls: the start, the last tick
\* before the TTL of an entry stored at the start is over, and the first
\* tick after
Instants == {0, Seconds(ttl) - 1, Seconds(ttl)}

\* the arguments of a call of fn about the airport code
WxArgs(fn, code) ==
    IF fn = "fetch_weather" THEN <<code, code>> ELSE <<code>>

\* the request a call sends: wx_api.py lines 8-15, 69, 84
WxRequest(fn, args) ==
    CASE fn = "fetch_weather" ->
            Request("weather", "awc_taf",
                    <<<<"K">> \o upper(args[1]), <<"K">> \o upper(args[2])>>, 0)
      [] fn = "fetch_datis" ->
            Request("datis", "clowd_datis", <<<<"K">> \o upper(args[1])>>, 0)
      [] OTHER ->
            Request("status", "faa_asws", <<upper(args[1])>>, 0)

\* how a call ended: a value returned, an exception raised, or no end
WxReturned(val) == [raised |-> FALSE, hung |-> FALSE, val |-> val]
WxRaised == [raised |-> TRUE, hung |-> FALSE, val |-> PyNone]
WxHung == [raised |-> FALSE, hung |-> TRUE, val |-> PyNone]

\* fetch_weather lines 16-20: requests.get without timeout
wx_weather_ends(o) ==
    CASE o = "raise" -> {WxRaised}
      [] o = "noanswer" -> {WxHung}
      [] o = "non200" -> {WxReturned(PyNone)}
      [] o = "empty" -> {WxReturned(PyStr("", <<>>))}
      [] OTHER -> {WxReturned(PyStr("METAR/TAF text", <<>>))}

\* fetch_datis lines 70-77: requests.get without timeout; KeyError and
\* IndexError are caught, the errors of a body that is not JSON or not
\* subscriptable are not
wx_datis_ends(o) ==
    CASE o = "ok" -> {WxReturned(PyStr("datis text", <<>>))}
      [] o \in {"lacking", "emptylist", "object"} ->
            {WxReturned(PyStr("DATIS data not found.", <<>>))}
      [] o = "non200" ->
            {WxReturned(PyStr("No DATIS Available. Status code", <<>>))}
      [] o = "noanswer" -> {WxHung}
      [] OTHER -> {WxRaised}

\* fetch_airport_status lines 85-133: every exception is caught; a body that
\* is not JSON raises an error that is a ValueError and, with requests 2.27
\* or later, a RequestException as well.  The status is not compared with
\* 200: raise_for_status (line 87) raises for a 4xx or 5xx status only, and
\* the body of an answer with another status is read like that of a 200 one,
\* whatever it holds
wx_status_ends(o) ==
    CASE o \in {"ok", "bare", "lacking"} ->
            {WxReturned(PyStr("Airport: ... STATUS INFORMATION", <<>>))}
      [] o = "noanswer" -> {WxReturned(PyStr("Error: Request timed out.", <<>>))}
      [] o = "raise" -> {WxReturned(PyStr("Request error", <<>>))}
      [] o = "non200" -> {WxReturned(PyStr("Request error", <<>>)),
                          WxReturned(PyStr("Airport: ... STATUS INFORMATION", <<>>)),
                          WxReturned(PyStr("Unexpected error", <<>>))}
      [] o = "malformed" -> {WxReturned(PyStr("Request error", <<>>)),
                             WxReturned(PyStr("Unexpected error", <<>>))}
      [] OTHER -> {WxReturned(PyStr("Unexpected error", <<>>))}

\* the value of a retrieval that is answered 200 with the documented body
WxOkValue(fn) ==
    CASE fn = "fetch_weather" -> PyStr("METAR/TAF text", <<>>)
      [] fn = "fetch_datis" -> PyStr("datis text", <<>>)
      [] OTHER -> PyStr("Airport: ... STATUS INFORMATION", <<>>)

\* the record of a call: its number in the run, its arguments, the instant,
\* the request it sent (NoRequest: none) and how it ended
WxCall(n, args, at, req, end) ==
    [n |-> n, args |-> args, at |-> at, req |-> req, raised |-> end.raised,
     hung |-> end.hung, val |-> end.val]
WxNoCall == WxCall(0, <<>>, 0, NoRequest, WxReturned(PyNone))

\* for a key of the caller's codes: the store made last (its value and
\* instant) and the other keys asked for since
Stored(key, val, at, others) ==
    [key |-> key, val |-> val, at |-> at, others |-> others]

\* the stores after a call with key that ended in end, sent or not
StoredAfter(stored, key, missed, end, now) ==
    {Stored(s.key, s.val, s.at, s.others \cup {key}) :
        s \in {r \in stored : r.key # key}}
      \cup (IF missed /\ ~end.raised /\ ~end.hung
            THEN {Stored(key, end.val, now, {})}
            ELSE {r \in stored : r.key = key})

\* a cache c read at the instant now
Clocked(c, now) == [c |-> c, now |-> now]

\* the wrapper around a function body that sends a request answered after d
\* ticks and returns val: the cache and the clock after the call.  A key
\* that is found takes no time; otherwise the value is stored when the body
\* has returned
Wrapper(st, key, val, d) ==
    IF CacheHit(st.c, key, st.now) THEN Clocked(CacheTouch(st.c, key), st.now)
    ELSE Clocked(CacheStore(st.c, key, val, st.now + d), st.now + d)

\* the caller asks fn about the other airports lo..hi in a row, each answered
\* 200 after d ticks; st holds a cache, of at most maxsize entries, and the
\* clock (the row is split in halves and the cache is looked at first, to
\* keep the evaluation shallow)
RECURSIVE Swept(_, _, _, _, _)
Swept(st, fn, lo, hi, d) ==
    IF Len(st.c) > maxsize \/ lo > hi THEN st
    ELSE IF lo = hi
    THEN Wrapper(st, WxArgs(fn, OtherCode(lo)), WxOkValue(fn), d)
    ELSE Swept(Swept(st, fn, lo, (lo + hi) \div 2, d),
               fn, ((lo + hi) \div 2) + 1, hi, d)

WxInit ==
    /\ xFn \in WxRetrievals
    /\ xNow = 0
    /\ xDelays \in Latencies
    /\ xCache = <<>>
    /\ xStored = {}
    /\ xCall = WxNoCall

\* the wrapper finds the key: the stored value is returned
WxHit(key) ==
    /\ xCall' = WxCall(xCall.n + 1, key, xNow, NoRequest,
                       WxReturned(CacheValue(xCache, key)))
    /\ xCache' = CacheTouch(xCache, key)
    /\ xStored' = StoredAfter(xStored, key, FALSE,
                              WxReturned(CacheValue(xCache, key)), xNow)
    /\ xNow' = xNow

\* a wrapper that stores the texts of a 200 answer only
WxMiss_errors_not_stored(key, req, end, d) ==
    /\ xCall' = WxCall(xCall.n + 1, key, xNow, req, end)
    /\ xCache' = IF end.raised \/ end.hung \/ end.val \notin {WxOkValue(xFn)}
                  THEN xCache
                  ELSE CacheStore(xCache, key, end.val, xNow + d)
    /\ xStored' = StoredAfter(xStored, key, TRUE, end, xNow + d)
    /\ xNow' = xNow + d

\* the function body ran for d ticks and ended in end, having sent req
WxMiss(key, req, end, d) ==
    /\ xCall' = WxCall(xCall.n + 1, key, xNow, req, end)
    /\ xCache' = IF end.raised \/ end.hung THEN xCache
                  ELSE CacheStore(xCache, key, end.val, xNow + d)
    /\ xStored' = StoredAfter(xStored, key, TRUE, end, xNow + d)
    /\ xNow' = xNow + d

\* wx_api.py fetch_weather lines 6-20
wx_fetch_weather ==
    /\ xFn = "fetch_weather"
    /\ ~xCall.hung /\ xCall.n < MaxCalls
    /\ \E code \in WxCodes :
          LET key == WxArgs("fetch_weather", code) IN
          IF CacheHit(xCache, key, xNow) THEN WxHit(key)
          ELSE \E o \in TextOutcomes, d \in xDelays :
                  \E end \in wx_weather_ends(o) :
                     WxMiss(key, WxRequest("fetch_weather", key), end, d)
    /\ UNCHANGED <<xFn, xDelays>>
    /\ UNCHANGED <<normVars, webVars, guiVars, clsVars, tglVars>>

\* wx_api.py fetch_datis lines 67-77
wx_fetch_datis ==
    /\ xFn = "fetch_datis"
    /\ ~xCall.hung /\ xCall.n < MaxCalls
    /\ \E code \in WxCodes :
          LET key == WxArgs("fetch_datis", code) IN
          IF CacheHit(xCache, key, xNow) THEN WxHit(key)
          ELSE \E o \in ListOutcomes, d \in xDelays :
                  \E end \in wx_datis_ends(o) :
                     WxMiss(key, WxRequest("fetch_datis", key), end, d)
    /\ UNCHANGED <<xFn, xDelays>>
    /\ UNCHANGED <<normVars, webVars, guiVars, clsVars, tglVars>>

\* wx_api.py fetch_airport_status lines 79-133
wx_fetch_airport_status ==
    /\ xFn = "fetch_airport_status"
    /\ ~xCall.hung /\ xCall.n < MaxCalls
    /\ \E code \in WxCodes \cup {<<>>} :
          LET key == WxArgs("fetch_airport_status", code) IN
          IF CacheHit(xCache, key, xNow) THEN WxHit(key)
          ELSE IF ~Truthy(code)
          THEN WxMiss(key, NoRequest,
                      WxReturned(PyStr("Error: Airport code is required", <<>>)),
                      0)
          ELSE \E o \in ObjectOutcomes :
                  \E end \in wx_status_ends(o),
                     d \in IF o = "noanswer" THEN {Seconds(timeout)}
                           ELSE xDelays :
                     WxMiss(key, WxRequest("fetch_airport_status", key), end, d)
    /\ UNCHANGED <<xFn, xDelays>>
    /\ UNCHANGED <<normVars, webVars, guiVars, clsVars, tglVars>>

\* the caller asks about n other airports in a row, each answered 200 after
\* d ticks
WxSweep ==
    /\ xFn \in WxRetrievals
    /\ ~xCall.hung /\ xCall.n < MaxCalls
    /\ \E d \in xDelays :
       LET most == Swept(Clocked(xCache, xNow), xFn, 1, maxsize - 2, d) IN
       \E n \in SweepSizes :
          LET before == Swept(most, xFn, maxsize - 1, n - 1, d)
              key == WxArgs(xFn, OtherCode(n))
              after == Wrapper(before, key, WxOkValue(xFn), d)
          IN  /\ xCache' = after.c
              /\ xNow' = after.now
              /\ xStored' =
                    {Stored(s.key, s.val, s.at,
                            s.others \cup {WxArgs(xFn, OtherCode(i)) : i \in 1..n}) :
                        s \in xStored}
              /\ xCall' = IF CacheHit(before.c, key, before.now)
                          THEN WxCall(xCall.n + 1, key, before.now, NoRequest,
                                      WxReturned(CacheValue(before.c, key)))
                          ELSE WxCall(xCall.n + 1, key, before.now,
                                      WxRequest(xFn, key),
                                      WxReturned(WxOkValue(xFn)))
    /\ UNCHANGED <<xFn, xDelays>>
    /\ UNCHANGED <<normVars, webVars, guiVars, clsVars, tglVars>>

\* time passes between two calls
WxTick ==
    /\ xFn \in WxRetrievals
    /\ ~xCall.hung
    /\ \E t \in Instants : t > xNow /\ xNow' = t
    /\ UNCHANGED <<xFn, xDelays, xCache, xStored, xCall>>
    /\ UNCHANGED <<normVars, webVars, guiVars, clsVars, tglVars>>

WxNext ==
    \/ wx_fetch_weather
    \/ wx_fetch_datis
    \/ wx_fetch_airport_status
    \/ WxSweep
    \/ WxTick

-----------------------------------------------------------------------------
(* V4.py: the window between two runs of fetchAllInfo *)

\* most runs of fetchAllInfo in one session
MaxSubmissions == 2

\* the texts the user types in the course of a session
SessionDepartures == { <<"J","F","K">>, <<"P","H","N","L">> }
SessionArrivals == { <<"J","F","K">> }
SessionAlternates == { <<>> }

\* the run is over and the event loop has the window again; the user may
\* have typed other codes before the button is clicked (or the timer fires)
\* again
editInputs ==
    /\ gPc = "done"
    /\ gRun < MaxSubmissions
    /\ gPc' = "idle"
    /\ gDep' \in SessionDepartures
    /\ gArr' \in SessionArrivals
    /\ gAlt' \in SessionAlternates
    /\ UNCHANGED <<gDelays, gRole, gWxOutcome, gWeatherOut, gDatis, gStatus,
                   gDatisOut, gStatusOut, gReq, gRet, gCache, gNow, gRun,
                   gWeatherRun>>
    /\ UNCHANGED <<normVars, webVars, clsVars, wxVars, tglVars>>

\* the run is over and the fields are left as they are: the next click (or
\* the timer) starts a run on the same codes
leaveInputs ==
    /\ gPc = "done"
    /\ gRun < MaxSubmissions
    /\ gPc' = "idle"
    /\ UNCHANGED <<gDelays, gDep, gArr, gAlt, gRole, gWxOutcome, gWeatherOut,
                   gDatis, gStatus, gDatisOut, gStatusOut, gReq, gRet, gCache,
                   gNow, gRun, gWeatherRun>>
    /\ UNCHANGED <<normVars, webVars, clsVars, wxVars, tglVars>>

\* time passes while the window is idle
GuiTick ==
    /\ gPc = "idle"
    /\ \E t \in Instants : t > gNow /\ gNow' = t
    /\ UNCHANGED <<gDelays, gPc, gDep, gArr, gAlt, gRole, gWxOutcome, gWeatherOut, gDatis,
                   gStatus, gDatisOut, gStatusOut, gReq, gRet, gCache, gRun,
                   gWeatherRun>>
    /\ UNCHANGED <<normVars, webVars, clsVars, wxVars, tglVars>>

-----------------------------------------------------------------------------
(* The classifier and the wx_api.py retrievals, not exercised *)

ClsOff ==
    /\ cData = <<>>
    /\ cStage = 0
    /\ cGui = <<>> /\ cWx = <<>> /\ cWeb = <<>>

WxOff ==
    /\ xFn = "none"
    /\ xNow = 0
    /\ xDelays = {0}
    /\ xCache = <<>>
    /\ xStored = {}
    /\ xCall = WxNoCall

-----------------------------------------------------------------------------
(* V4.py: the auto-refresh controls of initUI and toggleAutoRefresh.  The  *)
(* interval field holds a text; the button is checkable, so Qt flips its   *)
(* checked state on a click and then calls toggleAutoRefresh.               *)

\* the longest interval text typed character by character
MaxTextLen == 2
\* how many clicks on the button are followed
MaxClicks == 3

\* the characters typed into refreshIntervalInput
IntervalChars == {"0", "1", "7", " ", "-", "+", "_", "x"}

RECURSIVE TextsUpTo(_)
TextsUpTo(n) ==
    IF n = 0
    THEN {<<>>}
    ELSE LET shorter == TextsUpTo(n - 1)
         IN  shorter \cup {Append(t, c) : t \in shorter, c \in IntervalChars}

\* longer texts: padded, grouped with underscores, a decimal, and the two
\* around the largest interval that fits a C int of milliseconds
LongTexts ==
    { <<" ", "6", "0", " ">>, <<"1", "_", "0">>, <<"1", "_", "_", "0">>,
      <<"1", ".", "5">>, <<"0", "0", "1">>, <<"-", "1", "0">>,
      <<"2", "1", "4", "7", "4", "8", "3">>,
      <<"2", "1", "4", "7", "4", "8", "4">>,
      <<"U+0665">>, <<"4", "U+0662">>, <<"U+2003", "5">>,
      <<"\t", "5">>, <<"5", "\n">>, <<" ", "5">>, <<"", "5">> }

IntervalTexts == TextsUpTo(MaxTextLen) \cup LongTexts

\* the blanks int() skips around the number: those of str.isspace() but the
\* separators 1C-1F
IntBlanks == Whitespace \ {"", "", "", ""}

RECURSIVE IntStrip(_)
IntStrip(s) ==
    IF s # <<>> /\ Head(s) \in IntBlanks THEN IntStrip(Tail(s))
    ELSE IF s # <<>> /\ s[Len(s)] \in IntBlanks
    THEN IntStrip(SubSeq(s, 1, Len(s) - 1))
    ELSE s

\* the most digits int() converts (sys.int_info.default_max_str_digits)
MaxStrDigits == 4300

\* int(text) of Python: blanks around, an optional sign, then at most
\* MaxStrDigits digits that single underscores may separate; anything else
\* is a ValueError
IntSign(s) == IF s # <<>> /\ Head(s) \in {"+", "-"} THEN Head(s) ELSE ""
IntBody(s) == IF IntSign(s) # "" THEN Tail(s) ELSE s
IntBodyValid(b) ==
    /\ b # <<>>
    /\ \A i \in 1..Len(b) : b[i] \in Digits \cup {"_"}
    /\ b[1] \in Digits /\ b[Len(b)] \in Digits
    /\ \A i \in 1..(Len(b) - 1) : ~(b[i] = "_" /\ b[i + 1] = "_")
    /\ Cardinality({i \in 1..Len(b) : b[i] \in Digits}) <= MaxStrDigits

RECURSIVE IntBodyValue(_, _)
IntBodyValue(b, acc) ==
    IF b = <<>>
    THEN acc
    ELSE IF Head(b) = "_"
    THEN IntBodyValue(Tail(b), acc)
    ELSE IntBodyValue(Tail(b), 10 * acc + DigitValue(Head(b)))

ValueError == [raised |-> TRUE, val |-> 0]
py_int(text) ==
    LET s == IntStrip(text)
        b == IntBody(s)
    IN  IF ~IntBodyValid(b)
        THEN ValueError
        ELSE [raised |-> FALSE,
              val |-> IF IntSign(s) = "-"
                      THEN 0 - IntBodyValue(b, 0)
                      ELSE IntBodyValue(b, 0)]

\* QTimer.start(int msec): the largest value a C int holds; PyQt6 raises
\* OverflowError when given more
MaxCInt == 2147483647

StartLabel == "Start Auto-Refresh"
StopLabel == "Stop Auto-Refresh"
InvalidIntervalPane == PyStr("red:Invalid refresh interval", <<>>)

\* the window is not up (another tool is being exercised)
TglOff ==
    /\ tPc = "off"
    /\ tChecked = FALSE
    /\ tLabel = StartLabel
    /\ tActive = FALSE
    /\ tInterval = 0
    /\ tText = <<>>
    /\ tClicks = 0

\* initUI lines 92-104: an empty field, an unchecked checkable button, a
\* timer that was not started
TglInit ==
    /\ tPc = "idle"
    /\ tChecked = FALSE
    /\ tLabel = StartLabel
    /\ tActive = FALSE
    /\ tInterval = 0
    /\ tText = <<>>
    /\ tClicks = 0

\* the user types into refreshIntervalInput
editInterval ==
    /\ tPc = "idle"
    /\ \E text \in IntervalTexts :
          /\ text # tText
          /\ tText' = text
    /\ UNCHANGED <<tPc, tChecked, tLabel, tActive, tInterval, tClicks>>
    /\ UNCHANGED <<normVars, webVars, guiVars, clsVars, wxVars>>

\* the part of the window toggleAutoRefresh does not write
ToggleGuiFrame ==
    UNCHANGED <<gDelays, gPc, gDep, gArr, gAlt, gRole, gWxOutcome, gDatis, gStatus,
                gDatisOut, gStatusOut, gReq, gRet, gCache, gNow, gRun,
                gWeatherRun>>

\* toggleAutoRefresh accepting every number
toggleAutoRefresh_any_number ==
    /\ tPc = "idle"
    /\ tClicks < MaxClicks
    /\ tClicks' = tClicks + 1
    /\ IF ~tChecked
       THEN LET parsed == py_int(tText)
                seconds == parsed.val
            IN  IF parsed.raised
                THEN /\ tChecked' = FALSE
                     /\ tLabel' = StartLabel
                     /\ tText' = <<>>
                     /\ gWeatherOut' = InvalidIntervalPane
                     /\ ToggleGuiFrame
                     /\ UNCHANGED <<tPc, tActive, tInterval>>
                ELSE IF seconds > MaxCInt \div 1000
                THEN /\ tChecked' = TRUE
                     /\ tPc' = "aborted"
                     /\ UNCHANGED <<tLabel, tActive, tInterval, tText, guiVars>>
                ELSE /\ tChecked' = TRUE
                     /\ tActive' = TRUE
                     /\ tInterval' = seconds * 1000
                     /\ tLabel' = StopLabel
                     /\ UNCHANGED <<tPc, tText, guiVars>>
       ELSE /\ tChecked' = FALSE
            /\ tActive' = FALSE
            /\ tLabel' = StartLabel
            /\ UNCHANGED <<tPc, tInterval, tText, guiVars>>
    /\ UNCHANGED <<normVars, webVars, clsVars, wxVars>>

\* a click on autoRefreshButton: Qt flips the checked state of the checkable
\* button, then toggleAutoRefresh lines 120-135 runs.  The interval is
\* seconds * 1000 milliseconds: it is less than 1000 when seconds < 1, and
\* more than a C int holds when seconds > MaxCInt \div 1000; that
\* OverflowError is not a ValueError, it leaves the slot and ends the program
toggleAutoRefresh ==
    /\ tPc = "idle"
    /\ tClicks < MaxClicks
    /\ tClicks' = tClicks + 1
    /\ IF ~tChecked
       THEN LET parsed == py_int(tText)
                seconds == parsed.val
            IN  IF parsed.raised \/ seconds < 1
                THEN /\ tChecked' = FALSE
                     /\ tLabel' = StartLabel
                     /\ tText' = <<>>
                     /\ gWeatherOut' = InvalidIntervalPane
                     /\ ToggleGuiFrame
                     /\ UNCHANGED <<tPc, tActive, tInterval>>
                ELSE IF seconds > MaxCInt \div 1000
                THEN /\ tChecked' = TRUE
                     /\ tPc' = "aborted"
                     /\ UNCHANGED <<tLabel, tActive, tInterval, tText, guiVars>>
                ELSE /\ tChecked' = TRUE
                     /\ tActive' = TRUE
                     /\ tInterval' = seconds * 1000
                     /\ tLabel' = StopLabel
                     /\ UNCHANGED <<tPc, tText, guiVars>>
       ELSE /\ tChecked' = FALSE
            /\ tActive' = FALSE
            /\ tLabel' = StartLabel
            /\ UNCHANGED <<tPc, tInterval, tText, guiVars>>
    /\ UNCHANGED <<normVars, webVars, clsVars, wxVars>>

-----------------------------------------------------------------------------
(* Specifications *)

vars == <<normVars, webVars, guiVars, clsVars, wxVars, tglVars>>

\* the conversions alone
NormSpecInit == NormInit /\ TglOff /\ WebOff /\ GuiOff /\ ClsOff /\ WxOff
SpecNorm == NormSpecInit /\ [][NormNext]_vars

\* the colorizers alone
ClsSpecInit == NormOff /\ TglOff /\ WebOff /\ GuiOff /\ ClsInit /\ WxOff
SpecClassify == ClsSpecInit /\ [][ClsNext]_vars

\* one run of a caller of wx_api.py
CacheInit ==
    /\ NormOff /\ TglOff /\ WebOff /\ GuiOff /\ ClsOff
    /\ WxInit /\ Cardinality(xDelays) = 1
SpecCache == CacheInit /\ [][WxNext]_vars

\* one briefing, by either tool
BriefInit ==
    /\ NormOff /\ TglOff
    /\ ClsOff
    /\ WxOff
    /\ \/ WebInit /\ GuiOff
       \/ WebOff /\ GuiInit /\ gDelays = {0}

BriefNext ==
    \/ get_weather
    \/ fetch_weather_primary
    \/ fetch_weather_alt
    \/ fetch_weather_metar
    \/ fetch_datis_metar
    \/ fetch_datis_clowd
    \/ fetch_datis_aviationapi
    \/ fetch_airport_status_faa
    \/ fetch_airport_status_metar
    \/ fetchAllInfo
    \/ fetchWeather
    \/ fetchDatis
    \/ fetchAirportStatus

SpecBrief == BriefInit /\ [][BriefNext]_vars

\* one briefing whose handler keeps running: the interpreter executes the
\* next statement of a handler that has one
SpecBriefFair == SpecBrief /\ WF_vars(BriefNext)

\* a session of the desktop tool: runs of fetchAllInfo one after another
SessionInit ==
    /\ NormOff /\ TglOff /\ WebOff /\ ClsOff /\ WxOff
    /\ GuiInit
    /\ gDelays = {0}
    /\ gDep \in SessionDepartures
    /\ gArr \in SessionArrivals
    /\ gAlt \in SessionAlternates
SessionNext ==
    \/ fetchAllInfo
    \/ fetchWeather
    \/ fetchDatis
    \/ fetchAirportStatus
    \/ editInputs
    \/ GuiTick
SpecSession == SessionInit /\ [][SessionNext]_vars

\* the caches of both tools: a run of a caller of wx_api.py, or a session of
\* the desktop tool
CachesInit ==
    /\ NormOff /\ TglOff /\ WebOff /\ ClsOff
    /\ \/ GuiOff /\ WxInit /\ xDelays = {0}
       \/ /\ WxOff
          /\ GuiInit
          /\ gDelays = RequestTicks
          /\ gDep \in SessionArrivals
          /\ gArr \in SessionArrivals
          /\ gAlt \in SessionAlternates
CachesNext ==
    \/ wx_fetch_weather
    \/ wx_fetch_datis
    \/ wx_fetch_airport_status
    \/ WxSweep
    \/ WxTick
    \/ fetchAllInfo
    \/ fetchWeather
    \/ fetchDatis
    \/ fetchAirportStatus
    \/ leaveInputs
    \/ GuiTick
SpecCaches == CachesInit /\ [][CachesNext]_vars

\* the auto-refresh controls of a window whose briefing is not running
ToggleInit ==
    /\ NormOff /\ WebOff /\ ClsOff /\ WxOff
    /\ TglInit
    /\ GuiInit
    /\ gDelays = {0}
    /\ gDep \in SessionDepartures
    /\ gArr \in SessionArrivals
    /\ gAlt \in SessionAlternates
ToggleNext == toggleAutoRefresh \/ editInterval
SpecToggle == ToggleInit /\ [][ToggleNext]_vars

-----------------------------------------------------------------------------
(* Claims about one briefing, checked under SpecBrief *)

ResponseFields == {"weather", "datis", "status", "utc_time"}

\* C1: get_weather never fails as a whole: whatever the body and whatever
\* its HTTP calls come to, it answers with a JSON object holding weather,
\* datis, status and utc_time, each a string.
C1_GetWeatherAlwaysAnswers ==
    wPc = "done" =>
        /\ wResp.kind = "json"
        /\ DOMAIN wResp.json = ResponseFields
        /\ \A f \in ResponseFields : wResp.json[f].ty = "str"

\* every retrieval of a well-formed request failed
C1_Witness ==
    /\ wPc = "done"
    /\ wBody.kind = "object"
    /\ wResp.kind = "json"
    /\ wResp.json["weather"].kind = "red:Error fetching weather data"
    /\ wResp.json["datis"].sections[1].text =
          "DATIS information not available for this airport"
    /\ wResp.json["status"].sections[1].text =
          "Airport status information not available"

\* C2: in fetchAllInfo, for a departure and an arrival airport, a failed
\* weather retrieval (a raised error or a non-200 answer) does not stop the
\* DATIS and status retrievals: the run does not end in fetchWeather, and a
\* finished run has written both panes.
C2_WeatherFailureIsolated ==
    gWxOutcome \in {"raise", "non200"} /\ Truthy(strip(gDep)) /\ Truthy(strip(gArr)) =>
        /\ ~(gPc = "raised" /\ gRet.fn = "fetchWeather")
        /\ gPc = "done" =>
              gDatisOut.kind = "sections" /\ gStatusOut.kind = "sections"

\* C3: a single retrieval turns every failure into a returned string: no
\* call of fetchWeather or fetchDatis raises or returns a non-string.
C3_RetrievalsReturnStrings ==
    gRet.fn \in {"fetchWeather", "fetchDatis"} =>
        ~gRet.raised /\ gRet.val.ty = "str"

\* an airport field that is empty or only whitespace
BlankField(v) == v.ty = "absent" \/ (v.ty = "str" /\ strip(v.s) = <<>>)

\* the half of C4 about get_weather
WebEmptyCodeFailsFast ==
    wBody.kind = "object"
      /\ (BlankField(wBody.departure) \/ BlankField(wBody.arrival))
    => wReq = NoRequest

\* the half of C4 about fetchAllInfo
GuiEmptyCodeFailsFast ==
    gPc # "off" /\ (strip(gDep) = <<>> \/ strip(gArr) = <<>>)
    => gReq = NoRequest

\* C4: with an empty (or blank) departure or arrival code the briefing
\* handler issues no HTTP request at all.
C4_EmptyCodeFailsFast == WebEmptyCodeFailsFast /\ GuiEmptyCodeFailsFast

HasAlternateSection(out) ==
    \E i \in 1..Len(out.sections) : out.sections[i].role = "Alternate"

\* C5: with the alternate unset no retrieval is issued for an alternate
\* airport: the weather ids are exactly the departure and arrival codes, the
\* DATIS and status requests are for departure and arrival only, and the
\* DATIS and status outputs have no alternate section.
C5_NoAlternateRetrievals ==
    /\ wPc \notin {"off", "request"} /\ wAlt = <<>> =>
          /\ wReq.role \in {0, 1, 2}
          /\ wReq.ep \in {"awc_taf", "awc_taf_php"} =>
                wReq.ids = <<format_airport_code(wDep), format_airport_code(wArr)>>
          /\ wReq.ep = "awc_metar_raw" =>
                wReq.ids \in {<<format_airport_code(wDep)>>,
                              <<format_airport_code(wArr)>>}
          /\ wResp.kind = "json" =>
                /\ ~HasAlternateSection(wResp.json["datis"])
                /\ ~HasAlternateSection(wResp.json["status"])
    /\ gPc \notin {"off", "idle"} /\ gAlt = <<>> =>
          /\ gReq.role \in {0, 1, 2}
          /\ gReq.fn = "weather" =>
                gReq.ids = <<gui_format_airport_code(gDep),
                             gui_format_airport_code(gArr)>>
          /\ ~HasAlternateSection(gDatisOut)
          /\ ~HasAlternateSection(gStatusOut)

C5_Witness ==
    /\ wPc = "done"
    /\ wAlt = <<>>
    /\ wReq.fn = "status"
    /\ Len(wResp.json["datis"].sections) = 2
    /\ Len(wResp.json["status"].sections) = 2

-----
(* Claims about the conversions, checked under SpecNorm *)

\* a 3-letter / 4-letter airport code in its normalized (upper-case) form
IsCode3(c) == Len(c) = 3 /\ \A i \in 1..3 : c[i] \in UpperLetters
IsCode4(c) == Len(c) = 4 /\ \A i \in 1..4 : c[i] \in UpperLetters

\* the known Hawaii / Puerto Rico IATA codes: HNL OGG KOA LIH ITO SJU BQN PSE
StaticIATA == hawaiian_airports \cup pr_airports

\* <<IATA, ICAO>> pairs the reference examples and convert_to_iata's own
\* table give for toICAO
ExpectedICAO ==
    {<<kv[2], kv[1]>> : kv \in {e \in special_cases : StartsPHorTJ(e[1])}}
      \cup { << <<"J","F","K">>, <<"K","J","F","K">> >>,
             << <<"P","H","N","L">>, <<"P","H","N","L">> >> }

\* C6: toICAO returns KJFK for JFK, PHNL for PHNL and the real special-region
\* ICAO code for each known Hawaii / Puerto Rico IATA code (HNL -> PHNL,
\* SJU -> TJSJ, ...), in app.py and in V4.py.
C6_ToICAOKnownCodes ==
    nStage >= 2 =>
        \A p \in ExpectedICAO :
            nCode = p[1] => nICAO = p[2] /\ nICAOgui = p[2]

\* C7: convert_to_iata(format_airport_code(c)) = c for every 3-letter code c.
C7_ToIATAReversesToICAO ==
    nStage >= 5 /\ IsCode3(nCode) => nIATA = nCode

\* C8: for every known Hawaii / Puerto Rico IATA code c,
\* toICAO(toIATA(toICAO(c))) = toICAO(c).
C8_RoundTripStable ==
    nStage = 6 /\ nCode \in StaticIATA => nBack = nICAO

C8_Witness ==
    /\ nStage = 6
    /\ nCode = <<"H","N","L">>
    /\ nIATA # Unset
    /\ nBack = nICAO

\* C9 as stated: every 3-letter code outside the static table gets K
\* prepended, codes beginning with PH or TJ included.
C9_Original ==
    nStage >= 2 /\ IsCode3(nCode) /\ nCode \notin StaticIATA =>
        nICAO = <<"K">> \o nCode /\ nICAOgui = <<"K">> \o nCode

\* C9 amended: a 3-letter code outside the static table gets K prepended
\* unless it begins with PH or TJ; a 3-letter code beginning with PH or TJ
\* is returned unchanged.
C9_PrependKUnlessRegionPrefix ==
    nStage >= 2 /\ IsCode3(nCode) /\ nCode \notin StaticIATA =>
        IF StartsPHorTJ(nCode)
        THEN nICAO = nCode /\ nICAOgui = nCode
        ELSE nICAO = <<"K">> \o nCode /\ nICAOgui = <<"K">> \o nCode

C9_Witness ==
    /\ nStage >= 2
    /\ nCode = <<"P","H","X">>
    /\ nICAO = <<"P","H","X">>
    /\ nICAOgui = <<"P","H","X">>

\* the rule C10 states for a 4-letter code, over a given ICAO -> IATA table
StatedIATA(table, c) ==
    IF startswith(c, <<"K">>) THEN SliceFrom(c, 1)
    ELSE IF StartsPHorTJ(c)
         THEN IF c \in Keys(table) THEN Lookup(table, c) ELSE SliceFrom(c, 2)
    ELSE SliceFrom(c, 1)

\* C10 as stated: every 4-letter code follows the K / PH-TJ table with 2-letter
\* fallback / strip-first-letter rule, in convert_to_iata and in
\* fetchAirportStatus.
C10_Original ==
    nStage >= 4 /\ IsCode4(nCode) =>
        /\ nIATAin = StatedIATA(special_cases, nCode)
        /\ nFaa = StatedIATA(hawaii_airports \cup puerto_rico_airports, nCode)

\* C10 amended: convert_to_iata returns the table entry of every code of its
\* table (EGLL, LFPG and EDDF included) and otherwise strips K, the 2-letter
\* PH/TJ prefix, or the first letter; fetchAirportStatus returns the table
\* entry of every code of its Hawaii / Puerto Rico tables and otherwise
\* strips the first letter only, also for PH/TJ codes absent from the tables.
C10_ToIATARule ==
    nStage >= 4 /\ IsCode4(nCode) =>
        /\ nIATAin =
              IF nCode \in Keys(special_cases)
              THEN Lookup(special_cases, nCode)
              ELSE IF startswith(nCode, <<"K">>) THEN SliceFrom(nCode, 1)
              ELSE IF StartsPHorTJ(nCode) THEN SliceFrom(nCode, 2)
              ELSE SliceFrom(nCode, 1)
        /\ nFaa =
              IF nCode \in Keys(hawaii_airports \cup puerto_rico_airports)
              THEN Lookup(hawaii_airports \cup puerto_rico_airports, nCode)
              ELSE SliceFrom(nCode, 1)

C10_Witness ==
    /\ nStage >= 4
    /\ nCode = <<"P","H","X","X">>
    /\ nIATAin = <<"X","X">>
    /\ nFaa = <<"H","X","X">>

-----------------------------------------------------------------------------
(* Claims about the codes sent upstream and their lengths *)

\* a 3- or 4-letter code as get_weather holds it after parsing
IsCode3or4(c) == IsCode3(c) \/ IsCode4(c)

\* C18: every ICAO identifier get_weather sends upstream for an airport is
\* format_airport_code of that airport's code: the ids of the weather
\* requests, and the id of the METAR request of fetch_datis and of
\* fetch_airport_status.
C18_SameNormalizedCode ==
    /\ wReq.ep \in {"awc_taf", "awc_taf_php"} =>
          \A i \in 1..Len(wReq.ids) :
              wReq.ids[i] = format_airport_code(WebRoleCode(i))
    /\ wReq.ep = "awc_metar_json" /\ IsCode3or4(WebRoleCode(wReq.role)) =>
          wReq.ids = <<format_airport_code(WebRoleCode(wReq.role))>>

\* C19: for every input of 3 or 4 letters format_airport_code returns
\* exactly 4 letters and convert_to_iata returns exactly 3 letters.
C19_NormalizedLengths ==
    nStage >= 3 /\ IsCode3or4(nCode) =>
        Len(nICAO) = 4 /\ Len(nIATAin) = 3

-----------------------------------------------------------------------------
(* Claims about termination, checked under SpecBriefFair *)

\* the half of C17 about get_weather: every request is answered
WebBriefingCompletes == (wPc = "request") ~> (wPc = "done")

\* C17: no network call waits without bound: whatever the endpoints do, an
\* endpoint that never answers included, a briefing that was started comes
\* to its end (a run that an exception ended counts as ended here).
C17_BriefingTerminates ==
    (wPc = "request" \/ gPc = "idle") ~>
        (wPc = "done" \/ gPc \in {"done", "raised"})

-----------------------------------------------------------------------------
(* Claims about the classifier and the grouping of lines *)

\* the lines a colorizer has put in its result, in order
ColoredLines(items) == SelectSeq(items, LAMBDA it : it.kind = "line")

\* the stated VFR tokens
VfrTokens == { <<"S", "K", "C">>, <<"C", "L", "R">>, <<"S", "C", "T">>, <<"F", "E", "W">>, <<"P", "6", "S", "M">> }
HasVfrToken(line) == \E t \in VfrTokens : Contains(line, t)

\* the stated visibility: the first number of one or two digits that is
\* directly followed by SM (whole statute miles), if there is one
StatedVisibilityAt(line, i) ==
    /\ DigitAt(line, i)
    /\ IsAt(line, i + 1, SM) \/ (DigitAt(line, i + 1) /\ IsAt(line, i + 2, SM))
HasStatedVisibility(line) == \E i \in 1..Len(line) : StatedVisibilityAt(line, i)
StatedVisibility(line) ==
    LET i == Min({j \in 1..Len(line) : StatedVisibilityAt(line, j)})
    IN  IF IsAt(line, i + 1, SM) THEN DigitValue(line[i])
        ELSE DigitValue(line[i]) * 10 + DigitValue(line[i + 1])

\* the stated ceiling: 100 x the least value of the layers OVC, BKN or VV
\* followed by three digits, if there is one
StatedLayerAt(line, i, w) ==
    IsAt(line, i, w) /\ \A k \in 0..2 : DigitAt(line, i + Len(w) + k)
StatedLayerValues(line) ==
    { DigitValue(line[p[1] + Len(p[2])]) * 100
        + DigitValue(line[p[1] + Len(p[2]) + 1]) * 10
        + DigitValue(line[p[1] + Len(p[2]) + 2]) :
          p \in {q \in (1..Len(line)) \X {OVC, BKN, VV} :
                    StatedLayerAt(line, q[1], q[2])} }
HasStatedCeiling(line) == StatedLayerValues(line) # {}
StatedCeiling(line) == 100 * Min(StatedLayerValues(line))

\* the stated threshold chain
StatedCategory(c, v) ==
    IF c < 500 \/ v < 1 THEN "LIFR"
    ELSE IF (500 <= c /\ c < 1000) \/ (1 <= v /\ v < 3) THEN "IFR"
    ELSE IF (1000 <= c /\ c <= 3000) \/ (3 <= v /\ v <= 5) THEN "MVFR"
    ELSE IF c > 3000 /\ v > 5 THEN "VFR"
    ELSE "not stated"
StatedColor(cat) ==
    CASE cat = "LIFR" -> "magenta" [] cat = "IFR" -> "red"
      [] cat = "MVFR" -> "blue" [] cat = "VFR" -> "green"
      [] cat = "UNKNOWN" -> "black"

\* C11: the classifiers of V4.py and wx_api.py render green (VFR) every
\* line that contains SKC, CLR, SCT, FEW or P6SM, whatever layers and
\* visibility the line also holds.
C11_VfrTokenWins ==
    cStage = 3 =>
        \A items \in {cGui, cWx} :
            \A i \in 1..Len(ColoredLines(items)) :
                HasVfrToken(ColoredLines(items)[i].text) =>
                    ColoredLines(items)[i].color = "green"

\* a line with SKC, a layer under 500 ft and a visibility under 1 SM has
\* been classified by both
C11_Witness ==
    /\ cStage = 3
    /\ \A items \in {cGui, cWx} :
          \E i \in 1..Len(ColoredLines(items)) :
              LET line == ColoredLines(items)[i].text IN
              /\ Contains(line, <<"S", "K", "C">>)
              /\ Contains(line, <<"O", "V", "C", "0", "0", "4">>)
              /\ Contains(line, <<"0", "S", "M">>)
              /\ ColoredLines(items)[i].color = "green"

\* C12: for a line without a VFR token in which a visibility and a ceiling
\* are found, the classifiers of V4.py and wx_api.py give LIFR if
\* ceiling < 500 or visibility < 1, otherwise IFR if 500 <= ceiling < 1000 or
\* 1 <= visibility < 3, otherwise MVFR if 1000 <= ceiling <= 3000 or
\* 3 <= visibility <= 5, otherwise VFR if ceiling > 3000 and visibility > 5.
C12_ThresholdChain ==
    cStage = 3 =>
        \A items \in {cGui, cWx} :
            \A i \in 1..Len(ColoredLines(items)) :
                LET line == ColoredLines(items)[i].text IN
                ~HasVfrToken(line) /\ HasStatedVisibility(line)
                    /\ HasStatedCeiling(line)
                    /\ StatedCategory(StatedCeiling(line), StatedVisibility(line))
                          # "not stated"
                  => ColoredLines(items)[i].color =
                        StatedColor(StatedCategory(StatedCeiling(line),
                                                   StatedVisibility(line)))

\* OVC008 with 2SM has been classified IFR by both
C12_Witness ==
    /\ cStage = 3
    /\ \A items \in {cGui, cWx} :
          \E i \in 1..Len(ColoredLines(items)) :
              LET line == ColoredLines(items)[i].text IN
              /\ ~HasVfrToken(line)
              /\ Contains(line, <<"O", "V", "C", "0", "0", "8">>)
              /\ Contains(line, <<" ", "2", "S", "M">>)
              /\ StatedCeiling(line) = 800 /\ StatedVisibility(line) = 2
              /\ ColoredLines(items)[i].color = "red"

\* C13: for a line without a VFR token, the classifiers of V4.py and
\* wx_api.py give UNKNOWN (black) exactly when the ceiling or the visibility
\* is not found in the line.
C13_UnknownIffMissing ==
    cStage = 3 =>
        \A items \in {cGui, cWx} :
            \A i \in 1..Len(ColoredLines(items)) :
                LET line == ColoredLines(items)[i].text IN
                ~HasVfrToken(line) =>
                    (ColoredLines(items)[i].color = "black"
                       <=> ~HasStatedCeiling(line) \/ ~HasStatedVisibility(line))

\* a line with a layer and no visibility has been classified UNKNOWN by both
C13_Witness ==
    /\ cStage = 3
    /\ \A items \in {cGui, cWx} :
          \E i \in 1..Len(ColoredLines(items)) :
              LET line == ColoredLines(items)[i].text IN
              /\ ~HasVfrToken(line)
              /\ HasStatedCeiling(line) /\ ~HasStatedVisibility(line)
              /\ ColoredLines(items)[i].color = "black"

\* the stated airport-code token of a line: its first word, when the line
\* starts with it and it is three or four capital letters
StatedToken(line) ==
    IF Len(FirstWord(line)) \in {3, 4}
         /\ \A i \in 1..Len(FirstWord(line)) : FirstWord(line)[i] \in UpperLetters
    THEN FirstWord(line)
    ELSE <<>>

\* the stated result for the lines from i on, last being the token of the
\* closest earlier line that carries one: the lines that are not blank, a
\* separator before each line whose token differs from last
RECURSIVE StatedGrouping(_, _, _)
StatedGrouping(lines, i, last) ==
    IF i > Len(lines) THEN <<>>
    ELSE IF strip(lines[i]) = <<>> THEN StatedGrouping(lines, i + 1, last)
    ELSE LET t == StatedToken(lines[i]) IN
         (IF t # <<>> /\ last # <<>> /\ t # last THEN <<"separator">> ELSE <<>>)
           \o <<"line">>
           \o StatedGrouping(lines, i + 1, IF t # <<>> THEN t ELSE last)

\* the lines and separators of a colorizer's result
Grouping(items) ==
    LET kept == SelectSeq(items, LAMBDA it : it.kind \in {"line", "rule", "break"})
    IN  [i \in 1..Len(kept) |->
            IF kept[i].kind = "line" THEN "line" ELSE "separator"]

\* colorize_weather of app.py puts a separator exactly where the airport
\* token changes
WebGroupsPerAirport ==
    cStage = 3 => Grouping(cWeb) = StatedGrouping(cData, 1, <<>>)

\* C14: colorizeWeather of V4.py and colorize_weather of app.py put a
\* separator before a line exactly when the line starts with an airport
\* token of 3-4 letters that differs from the token of the closest earlier
\* line carrying one; blank lines are skipped and do not reset the airport.
C14_SeparatorsPerAirport ==
    cStage = 3 =>
        /\ Grouping(cGui) = StatedGrouping(cData, 1, <<>>)
        /\ Grouping(cWeb) = StatedGrouping(cData, 1, <<>>)

-----------------------------------------------------------------------------
(* Claims about the TTL cache of the retrievals, checked under SpecCache *)

\* the normalized arguments of a call: each code stripped and in capitals
Normalized(args) == [i \in 1..Len(args) |-> upper(strip(args[i]))]

\* the step is one call of the retrieval
IsCallStep == xCall'.n = xCall.n + 1

\* the step is one call about the airport of WxCodes: it looks its arguments
\* up in the cache of the state it starts in, at that state's instant
IsSingleCallStep ==
    /\ IsCallStep
    /\ \E code \in WxCodes : xCall'.args = WxArgs(xFn, code)
    /\ xCall'.at = xNow

\* C15: the cache is keyed by the normalized airport codes: a call made
\* while the cache holds an unexpired entry for arguments that differ from
\* its own only in letter case or surrounding whitespace issues no HTTP
\* request.
C15_KeyedByNormalizedCodes ==
    [][ IsSingleCallStep
          /\ (\E i \in 1..Len(xCache) :
                 /\ Normalized(xCache[i].key) = Normalized(xCall'.args)
                 /\ xNow < xCache[i].expires)
        => xCall'.req = NoRequest ]_vars

\* the store of key made last
HasStore(stored, key) == \E s \in stored : s.key = key
LastStore(stored, key) == CHOOSE s \in stored : s.key = key

\* C16 as stated: entries leave the cache only by their TTL: a call made
\* less than 60 seconds after the store of its arguments returns the stored
\* value without an HTTP request, whatever was called in between; a call
\* made later issues a request.
C16_Original ==
    [][ IsCallStep /\ HasStore(xStored, xCall'.args)
        => IF xCall'.at < LastStore(xStored, xCall'.args).at + Seconds(ttl)
           THEN /\ xCall'.req = NoRequest
                /\ ~xCall'.raised /\ ~xCall'.hung
                /\ xCall'.val = LastStore(xStored, xCall'.args).val
           ELSE xCall'.req # NoRequest ]_vars

\* C16: a call made less than 60 seconds after the store of its arguments
\* returns the stored value without an HTTP request, provided fewer than
\* maxsize (128) other keys were asked for in between; a call made 60
\* seconds or more after the store runs the function again: about an
\* airport it issues a request, and fetch_airport_status without a code
\* returns its text again, sending nothing, and the text is stored anew.
C16_ExpireByTtlWhileRoom ==
    [][ IsCallStep /\ HasStore(xStored, xCall'.args)
        => IF xCall'.at < LastStore(xStored, xCall'.args).at + Seconds(ttl)
           THEN Cardinality(LastStore(xStored, xCall'.args).others) < maxsize
                  => /\ xCall'.req = NoRequest
                     /\ ~xCall'.raised /\ ~xCall'.hung
                     /\ xCall'.val = LastStore(xStored, xCall'.args).val
           ELSE IF Truthy(xCall'.args[1])
           THEN xCall'.req # NoRequest
           ELSE /\ xCall'.req = NoRequest
                /\ ~xCall'.raised /\ ~xCall'.hung
                /\ xCall'.val = PyStr("Error: Airport code is required", <<>>)
                /\ LastStore(xStored', xCall'.args).at = xCall'.at ]_vars

\* a call about an airport was answered from the cache after maxsize - 1
\* other keys had been asked for since the store
C16_Witness ==
    /\ xCall.n > 0 /\ HasStore(xStored, xCall.args)
    /\ Truthy(xCall.args[1])
    /\ xCall.req = NoRequest
    /\ Cardinality(LastStore(xStored, xCall.args).others) = maxsize - 1

-----------------------------------------------------------------------------
(* Claims about a session of the desktop tool, checked under SpecSession *)

\* C20: after every run of fetchAllInfo the weather pane shows what was made
\* from this run's fetchWeather, never what an earlier run (or initUI) left
\* there.
C20_WeatherPaneFresh ==
    gPc = "done" => gWeatherRun = gRun

-----------------------------------------------------------------------------
(* Claims about the caches of both tools, checked under SpecCaches *)

\* the values a retrieval returns for an answer it could not use
ErrorKinds ==
    {"No DATIS Available. Status code", "DATIS data not found.",
     "The 'datis' field is not present in the response.",
     "Request error", "Unexpected error", "Error: Request timed out.",
     "Error: Could not retrieve status", "Error: Failed to fetch data",
     "Error: Invalid data format",
     "Error: Request timed out. Please try again."}
IsErrorValue(v) == v = PyNone \/ v.kind \in ErrorKinds

\* wx_api.py: the step is a call with the arguments of the call before it,
\* which sent a request, less than the TTL later
RepeatsLastCall ==
    /\ IsCallStep
    /\ xCall.n > 0 /\ xCall.req # NoRequest
    /\ xCall'.args = xCall.args
    /\ xCall'.at < xCall.at + Seconds(ttl)

\* V4.py: the method the run is about to call, and the key of the call
GuiCallee ==
    CASE gPc = "weather" -> "fetchWeather"
      [] gPc = "datis" -> "fetchDatis"
      [] OTHER -> "fetchAirportStatus"
GuiCallKey ==
    IF gPc = "weather" THEN <<gDep, gArr, gAlt>> ELSE <<GuiRoleCode(gRole)>>

\* wx_api.py: a call that returned an error value is answered again from
\* the cache, a call that raised is not
WxRepeatAnswered ==
    RepeatsLastCall =>
        /\ ~xCall.raised /\ IsErrorValue(xCall.val) =>
              /\ xCall'.req = NoRequest
              /\ ~xCall'.raised /\ ~xCall'.hung
              /\ xCall'.val = xCall.val
        /\ xCall.raised => xCall'.req # NoRequest
WxErrorsCachedRaisesNot == [][WxRepeatAnswered]_vars

\* V4.py: a call that finds an unexpired entry returns its value, an error
\* value too, and sends nothing; a call that sent a request and returned
\* leaves its value in the cache, an error value too; a call that raised
\* leaves nothing
GuiCallAnswered ==
    gPc \in {"weather", "datis", "status"} /\ gPc' # "hung" =>
        IF Cached(GuiCallee, GuiCallKey)
        THEN /\ gReq' = gReq
             /\ gRet' = Returned(GuiCallee, CachedValue(GuiCallee, GuiCallKey))
        ELSE IF gRet'.raised
        THEN ~CacheHit(gCache'[GuiCallee], GuiCallKey, gNow')
        ELSE /\ CacheHit(gCache'[GuiCallee], GuiCallKey, gNow')
             /\ CacheValue(gCache'[GuiCallee], GuiCallKey) = gRet'.val
GuiErrorsCachedRaisesNot == [][GuiCallAnswered]_vars

\* C21: a retrieval that returned an error value (an error string or None)
\* is cached like a success: the same call repeated within the TTL returns
\* that value without an HTTP request; a call that raised stores nothing
\* and the next call sends a request again (wx_api.py and V4.py).
C21_ErrorsCachedRaisesNot ==
    WxErrorsCachedRaisesNot /\ GuiErrorsCachedRaisesNot

\* wx_api.py answered a repeated call with the error value of the call
\* before, or V4.py answered the arrival's DATIS call with the cached error
\* value of the departure's
C21_Witness ==
    \/ /\ xCall.n > 1 /\ xCall.req = NoRequest
       /\ IsErrorValue(xCall.val)
       /\ HasStore(xStored, xCall.args)
       /\ LastStore(xStored, xCall.args).others = {}
    \/ /\ gPc = "status" /\ gRole = 1 /\ gDep = gArr
       /\ gRet.fn = "fetchDatis" /\ IsErrorValue(gRet.val)
       /\ gReq.fn = "datis" /\ gReq.role = 1

-----------------------------------------------------------------------------
(* The fallback order of fetch_weather (app.py), checked under SpecBrief    *)

\* what fetch_weather accepts of its primary and of its alternative endpoint
PrimaryAccepted(o) == o = "ok"
AlternativeAccepted(o) == o \in {"ok", "short"}

\* fetch_weather is running, or has returned and nothing was requested since
InFetchWeather == wReq.fn = "weather"
WeatherReturned == InFetchWeather /\ wPc = "datis_metar"

\* C22: the alternative endpoint is queried only after the primary request
\* completed without raising and was not accepted; a METAR request of the
\* fallback is sent only after the primary or the alternative request raised;
\* and when both answered without raising and neither was accepted, the
\* function has returned "Weather data not available" and its last request
\* is the alternative one, no METAR request having followed it.
C22_FallbackOrder ==
    /\ (wPc = "wx_alt" \/ (InFetchWeather /\ wReq.ep = "awc_taf_php"))
          => /\ Len(wTried) >= 1
             /\ ~RaisesWithTimeout(wTried[1])
             /\ ~PrimaryAccepted(wTried[1])
    /\ (wPc = "wx_metar" \/ (InFetchWeather /\ wReq.ep = "awc_metar_raw"))
          => /\ Len(wTried) >= 1
             /\ RaisesWithTimeout(wTried[Len(wTried)])
    /\ ( /\ Len(wTried) = 2
         /\ ~RaisesWithTimeout(wTried[1]) /\ ~PrimaryAccepted(wTried[1])
         /\ ~RaisesWithTimeout(wTried[2]) /\ ~AlternativeAccepted(wTried[2]) )
          => /\ WeatherReturned
             /\ wReq.ep = "awc_taf_php"
             /\ wWeather = colorize_weather(
                    PyStr("Weather data not available", <<>>))

\* a primary body of at most 3 lines was followed by a non-200 alternative
\* answer, and fetch_weather returned the not-available text
C22_Witness ==
    /\ wTried = <<"short", "non200">>
    /\ WeatherReturned
    /\ wReq.ep = "awc_taf_php"
    /\ wWeather = colorize_weather(PyStr("Weather data not available", <<>>))

-----------------------------------------------------------------------------
(* The auto-refresh toggle of V4.py, checked under SpecToggle               *)

\* an interval the claim calls invalid: not a number, or less than 1 second
StatedInvalid(text) == py_int(text).raised \/ py_int(text).val < 1

\* the timer runs exactly when the button is checked and says Stop
TimerIffCheckedStop == tActive <=> (tChecked /\ tLabel = StopLabel)

\* a click on the unchecked button with an invalid interval in the field
\* leaves the timer stopped, the button unchecked and labelled Start, and the
\* field empty
InvalidClickRejected ==
    (tClicks' = tClicks + 1 /\ ~tChecked /\ StatedInvalid(tText))
        => /\ ~tActive'
           /\ ~tChecked'
           /\ tLabel' = StartLabel
           /\ tText' = <<>>

\* C23: after any sequence of clicks on the auto-refresh button with any
\* interval text, the timer is running if and only if the button is checked
\* and labelled 'Stop Auto-Refresh'; and a click that would start the timer
\* with an invalid interval (non-numeric, or less than 1 second) leaves the
\* timer stopped, the button unchecked and labelled 'Start Auto-Refresh', and
\* the interval field cleared.
C23_AutoRefreshToggle == []TimerIffCheckedStop /\ [][InvalidClickRejected]_vars

\* an invalid interval was rejected by one click and a later click started
\* the timer
C23_Witness ==
    /\ tClicks >= 2
    /\ gWeatherOut = InvalidIntervalPane
    /\ tActive /\ tChecked /\ tLabel = StopLabel

=============================================================================
